---- MODULE Spec2Model ----
(***************************************************************************)
(* Greek (el) text-normalization grammars of NeMo-text-processing.         *)
(*                                                                         *)
(* A grammar is a finite-state transducer, i.e. a relation between input   *)
(* strings and output strings.  Strings are sequences of symbols: an input *)
(* symbol is one character, an output symbol is one word or one space.     *)
(* A small transducer is the finite set of its <<input, output>> pairs; a  *)
(* large one is an operator giving the set of outputs of one input.  The   *)
(* pynini operations are modelled by what they do on these relations:      *)
(*   a | b  union,   a + b  concatenation,   a @ b  composition,           *)
(*   a - b  the pairs of a whose output b does not accept.                 *)
(* The state machine feeds one token through the composition chain of      *)
(* CardinalFst (and of the fixed-width fields of TimeFst and MoneyFst that *)
(* delegate to it), one composed stage per step.                           *)
(***************************************************************************)
EXTENDS Integers, Sequences, FiniteSets, TLC

(***************************************************************************)
(* Bounds of the checked input space.                                      *)
(***************************************************************************)
\* longest token drawn from the whole alphabet (digits, separators, others)
ShortLen == 5
\* longest digit string drawn from all ten digits
DigitLen == 3
\* longest digit string drawn from SmallDigits
MaxLen == 9
\* most zeros after the leading digit of a round number (10^MaxZeros)
MaxZeros == 15
\* longest run of digits of an ordinal token drawn from all ten digits
OrdinalLen == 2
\* longest amount of a money token and longest integer part of a decimal token
AmountLen == 2
\* most digits after the separator of a decimal token
FractionLen == 3
\* longest run of digits and separators of a telephone token
PhoneLen == 4

\* the most characters of the electronic tokens drawn from a few characters
AddressLen == 3

\* DateFst: the most digits of a day or a month, closure(NEMO_DIGIT, 1, 2)
DayWidth == 2

(***************************************************************************)
(* Relations.                                                              *)
(***************************************************************************)
\* pynini.cross(i, o): the one pair i -> o
cross(i, o) == {<<i, o>>}

\* pynutil.delete(i): read i, write nothing
delete(i) == {<<i, <<>>>>}

\* pynutil.insert(o): read nothing, write o
insert(o) == {<<<<>>, o>>}

\* pynini.accep(w): the acceptor of the one string w
accep(w) == {w}

\* a + b on transducers
Concat(A, B) == {<<a[1] \o b[1], a[2] \o b[2]>> : a \in A, b \in B}

\* a - b with b an acceptor: the composition of a with the complement of b,
\* which matches on a's output side (spec 4.1 step 4: the test "compares
\* the rendered word")
Difference(A, B) == {p \in A : p[2] \notin B}

\* the outputs the finite transducer R gives the input s
Img(R, s) == {p[2] : p \in {q \in R : q[1] = s}}

\* R indexed by input string, for repeated lookups
ByInput(R) == [i \in {p[1] : p \in R} |-> Img(R, i)]

\* (R + T) applied to s, where M is the finite transducer R indexed by input
\* and T is any transducer: every split of s into a prefix read by R and a
\* rest read by T
ConcatApply(M, T(_), s) ==
    UNION {{o \o t : o \in M[SubSeq(s, 1, k)], t \in T(SubSeq(s, k + 1, Len(s)))} :
           k \in {j \in 0..Len(s) : SubSeq(s, 1, j) \in DOMAIN M}}

\* image of a set of strings under a transducer
ImgSet(T(_), S) == UNION {T(s) : s \in S}

(***************************************************************************)
(* Character classes and the shared insert/delete of a space.              *)
(***************************************************************************)
NEMO_DIGIT == {"0", "1", "2", "3", "4", "5", "6", "7", "8", "9"}

NEMO_SPACE == " "

insert_space == insert(<<" ">>)

IsDigits(s) == \A i \in 1..Len(s) : s[i] \in NEMO_DIGIT

(***************************************************************************)
(* Number data of CardinalFst.                                             *)
(***************************************************************************)
\* data/number/zero.tsv, inverted: digit -> word
zero == {<<<<"0">>, <<"μηδέν">>>>}

\* data/number/digit.tsv, inverted: digit -> word (neuter forms)
digit ==
    { <<<<"1">>, <<"ένα">>>>, <<<<"2">>, <<"δύο">>>>, <<<<"3">>, <<"τρία">>>>,
      <<<<"4">>, <<"τέσσερα">>>>, <<<<"5">>, <<"πέντε">>>>, <<<<"6">>, <<"έξι">>>>,
      <<<<"7">>, <<"επτά">>>>, <<<<"8">>, <<"οκτώ">>>>, <<<<"9">>, <<"εννέα">>>> }

graph_zero == zero

graph_digit == digit

teens ==
    { <<<<"1", "1">>, <<"έντεκα">>>>, <<<<"1", "2">>, <<"δώδεκα">>>>,
      <<<<"1", "3">>, <<"δεκατρία">>>>, <<<<"1", "4">>, <<"δεκατέσσερα">>>>,
      <<<<"1", "5">>, <<"δεκαπέντε">>>>, <<<<"1", "6">>, <<"δεκαέξι">>>>,
      <<<<"1", "7">>, <<"δεκαεπτά">>>>, <<<<"1", "8">>, <<"δεκαοκτώ">>>>,
      <<<<"1", "9">>, <<"δεκαεννέα">>>> }

decades ==
    { <<<<"1", "0">>, <<"δέκα">>>>, <<<<"2", "0">>, <<"είκοσι">>>>,
      <<<<"3", "0">>, <<"τριάντα">>>>, <<<<"4", "0">>, <<"σαράντα">>>>,
      <<<<"5", "0">>, <<"πενήντα">>>>, <<<<"6", "0">>, <<"εξήντα">>>>,
      <<<<"7", "0">>, <<"εβδομήντα">>>>, <<<<"8", "0">>, <<"ογδόντα">>>>,
      <<<<"9", "0">>, <<"ενενήντα">>>> }

\* union(teens, decades, decades + insert_space + digit): the third branch
\* reads the two characters of a decade key and then one more digit
graph_tens ==
    teens \cup decades \cup Concat(Concat(decades, insert_space), digit)

graph_hundred == cross(<<"1">>, <<"εκατόν">>)

graph_hundreds_prefix ==
    { <<<<"2">>, <<"διακόσια">>>>, <<<<"3">>, <<"τριακόσια">>>>,
      <<<<"4">>, <<"τετρακόσια">>>>, <<<<"5">>, <<"πεντακόσια">>>>,
      <<<<"6">>, <<"εξακόσια">>>>, <<<<"7">>, <<"επτακόσια">>>>,
      <<<<"8">>, <<"οκτακόσια">>>>, <<<<"9">>, <<"εννιακόσια">>>> }

graph_hundred_alone == cross(<<"1", "0", "0">>, <<"εκατό">>)

graph_hundreds ==
    graph_hundred_alone
    \cup Concat(Concat(graph_hundred, insert_space), graph_tens)
    \cup Concat(Concat(graph_hundred, insert_space), digit)
    \cup Concat(graph_hundreds_prefix, cross(<<"0", "0">>, <<>>))
    \cup Concat(Concat(graph_hundreds_prefix, insert_space), graph_tens)
    \cup Concat(Concat(graph_hundreds_prefix, insert_space), digit)

graph_hundreds_component ==
    graph_hundreds \cup Concat(delete(<<"0">>), graph_tens)

graph_hundreds_component_at_least_one_non_zero ==
    graph_hundreds_component \cup Concat(delete(<<"0", "0">>), graph_digit)

\* the hundreds component indexed by its input
hundreds_index == ByInput(graph_hundreds_component_at_least_one_non_zero)

\* the outputs of the index M for the input s
Lookup(M, s) == IF s \in DOMAIN M THEN M[s] ELSE {}

(***************************************************************************)
(* Scale levels.                                                           *)
(***************************************************************************)
graph_thousand_alone == cross(<<"0", "0", "1">>, <<"χίλια">>)

graph_thousands_prefix ==
    Concat(Concat(Difference(graph_hundreds_component_at_least_one_non_zero,
                             accep(<<"ένα">>)),
                  insert_space),
           insert(<<"χιλιάδες">>))

graph_thousands == graph_thousand_alone \cup graph_thousands_prefix

thousands_index == ByInput(Concat(graph_thousands, insert_space))

graph_thousands_component(s) ==
    ConcatApply(ByInput(delete(<<"0", "0", "0">>)),
                LAMBDA r : Lookup(hundreds_index, r), s)
    \cup ConcatApply(thousands_index,
                     LAMBDA r : Lookup(hundreds_index, r)
                                \cup Img(delete(<<"0", "0", "0">>), r), s)

graph_million_one == cross(<<"0", "0", "1">>, <<"ένα", " ", "εκατομμύριο">>)

graph_millions_prefix ==
    Concat(Concat(Difference(graph_hundreds_component_at_least_one_non_zero,
                             accep(<<"ένα">>)),
                  insert_space),
           insert(<<"εκατομμύρια">>))

millions_index ==
    ByInput(Concat(graph_million_one, insert_space)
            \cup Concat(graph_millions_prefix, insert_space))

graph_millions(s) ==
    ConcatApply(ByInput(delete(<<"0", "0", "0">>)), graph_thousands_component, s)
    \cup ConcatApply(millions_index,
                     LAMBDA r : graph_thousands_component(r)
                                \cup Img(delete(<<"0", "0", "0", "0", "0", "0">>), r), s)

graph_billion_one == cross(<<"0", "0", "1">>, <<"ένα", " ", "δισεκατομμύριο">>)

graph_billions_prefix ==
    Concat(Concat(Difference(graph_hundreds_component_at_least_one_non_zero,
                             accep(<<"ένα">>)),
                  insert_space),
           insert(<<"δισεκατομμύρια">>))

billions_index ==
    ByInput(Concat(graph_billion_one, insert_space)
            \cup Concat(graph_billions_prefix, insert_space))

graph_billions(s) ==
    ConcatApply(ByInput(delete(<<"0", "0", "0">>)), graph_millions, s)
    \cup ConcatApply(billions_index,
                     LAMBDA r : graph_millions(r)
                                \cup Img(delete(<<"0", "0", "0", "0", "0", "0",
                                                  "0", "0", "0">>), r), s)

graph_trillion_one == cross(<<"0", "0", "1">>, <<"ένα", " ", "τρισεκατομμύριο">>)

graph_trillions_prefix ==
    Concat(Concat(Difference(graph_hundreds_component_at_least_one_non_zero,
                             accep(<<"ένα">>)),
                  insert_space),
           insert(<<"τρισεκατομμύρια">>))

trillions_index ==
    ByInput(Concat(graph_trillion_one, insert_space)
            \cup Concat(graph_trillions_prefix, insert_space))

graph_trillions(s) ==
    ConcatApply(ByInput(delete(<<"0", "0", "0">>)), graph_billions, s)
    \cup ConcatApply(trillions_index,
                     LAMBDA r : graph_billions(r)
                                \cup Img(delete(<<"0", "0", "0", "0", "0", "0",
                                                  "0", "0", "0", "0", "0", "0">>), r), s)

(***************************************************************************)
(* Padding to the fixed width and cleaning of spaces.                      *)
(***************************************************************************)
\* NEMO_DIGIT ** 15
Width == 15

Zeros(n) == [i \in 1..n |-> "0"]

\* the width check left out
pad_to_width_mutant(s) ==
    IF Len(s) >= 1 /\ IsDigits(s) /\ s[1] # "0"
    THEN {Zeros(Width - Len(s)) \o s}
    ELSE {}

\* ((NEMO_DIGIT - "0") + closure(NEMO_DIGIT)) @ cdrewrite(closure(insert("0")),
\* "[BOS]", "", NEMO_SIGMA) @ NEMO_DIGIT ** 15: a digit string that starts
\* with a non-zero digit, with as many zeros put in front as make it 15 long
pad_to_width(s) ==
    IF Len(s) >= 1 /\ IsDigits(s) /\ s[1] # "0" /\ Len(s) <= Width
    THEN {Zeros(Width - Len(s)) \o s}
    ELSE {}

RECURSIVE delete_extra_spaces(_)
\* cdrewrite(cross(closure(" ", 2), " "), "", "", NEMO_SIGMA): a run of two or
\* more spaces becomes one space
delete_extra_spaces(w) ==
    IF Len(w) < 2 THEN w
    ELSE IF w[1] = " " /\ w[2] = " " THEN delete_extra_spaces(Tail(w))
    ELSE <<w[1]>> \o delete_extra_spaces(Tail(w))

RECURSIVE clean_leading_space(_)
\* cdrewrite(delete_space, "[BOS]", "", NEMO_SIGMA)
clean_leading_space(w) ==
    IF w # <<>> /\ w[1] = " " THEN clean_leading_space(Tail(w)) ELSE w

\* the rewrite at [EOS] left out
clean_trailing_space_mutant(w) == w

RECURSIVE clean_trailing_space(_)
\* cdrewrite(delete_space, "", "[EOS]", NEMO_SIGMA)
clean_trailing_space(w) ==
    IF w # <<>> /\ w[Len(w)] = " "
    THEN clean_trailing_space(SubSeq(w, 1, Len(w) - 1))
    ELSE w

\* @ delete_extra_spaces @ clean_leading_space @ clean_trailing_space
clean_spaces(w) == clean_trailing_space(clean_leading_space(delete_extra_spaces(w)))

(***************************************************************************)
(* filter_punctuation.                                                     *)
(***************************************************************************)
cardinal_separator == {".", NEMO_SPACE}

\* two digits taken for a group as well
exactly_three_digits_mutant(s) == Len(s) \in 2..3 /\ IsDigits(s)

exactly_three_digits(s) == Len(s) = 3 /\ IsDigits(s)

\* a leftmost group of at most two digits
up_to_three_digits_mutant(s) ==
    /\ Len(s) \in 1..2
    /\ IsDigits(s)
    /\ s \notin {<<"0", "0", "0">>, <<"0", "0">>, <<"0">>}

up_to_three_digits(s) ==
    /\ Len(s) \in 1..3
    /\ IsDigits(s)
    /\ s \notin {<<"0", "0", "0">>, <<"0", "0">>, <<"0">>}

RECURSIVE grouped_tail(_)
\* closure(exactly_three_digits + delete(cardinal_separator)) + exactly_three_digits
grouped_tail(s) ==
    (IF exactly_three_digits(s) THEN {s} ELSE {})
    \cup (IF Len(s) >= 4 /\ exactly_three_digits(SubSeq(s, 1, 3))
             /\ s[4] \in cardinal_separator
          THEN {SubSeq(s, 1, 3) \o t : t \in grouped_tail(SubSeq(s, 5, Len(s)))}
          ELSE {})

\* closure(NEMO_DIGIT, 1) | up_to_three_digits + delete(cardinal_separator) + ...
cardinal_string(s) ==
    (IF Len(s) >= 1 /\ IsDigits(s) THEN {s} ELSE {})
    \cup UNION {IF Len(s) > k /\ up_to_three_digits(SubSeq(s, 1, k))
                   /\ s[k + 1] \in cardinal_separator
                THEN {SubSeq(s, 1, k) \o t : t \in grouped_tail(SubSeq(s, k + 2, Len(s)))}
                ELSE {} : k \in 1..3}

(***************************************************************************)
(* CardinalFst.graph as one relation.                                      *)
(***************************************************************************)
\* self.graph before filter_punctuation: the padded chain, cleaned, | graph_zero
graph_unfiltered(s) ==
    {clean_spaces(w) : w \in ImgSet(graph_trillions, pad_to_width(s))}
    \cup Img(graph_zero, s)

\* self.graph = filter_punctuation(self.graph)
graph(s) == ImgSet(graph_unfiltered, cardinal_string(s))

(***************************************************************************)
(* Fixed two-digit fields that delegate to the cardinal graph.             *)
(***************************************************************************)
\* the rewrite left out
delete_leading_zero_single_mutant(s) == s

RECURSIVE delete_leading_zero_single(_)
\* cdrewrite(delete("0"), "[BOS]", NEMO_DIGIT, NEMO_SIGMA): a zero at the start
\* of the string is deleted when a digit follows it.  The rule is obligatory
\* and its left context is read on the rewritten side, so the next zero is
\* at the start in its turn; on the two-digit fields at most one zero goes.
delete_leading_zero_single(s) ==
    IF Len(s) >= 2 /\ s[1] = "0" /\ s[2] \in NEMO_DIGIT
    THEN delete_leading_zero_single(Tail(s))
    ELSE s

\* TimeFst: minutes = NEMO_DIGIT ** 2, minutes @ delete_leading_zero_single
\* (seconds is built the same way)
minutes_graph(s) ==
    IF Len(s) = 2 /\ IsDigits(s) THEN {delete_leading_zero_single(s)} ELSE {}

RECURSIVE delete_leading_zero(_)
\* MoneyFst: cdrewrite(delete("0"), "[BOS]", NEMO_DIGIT, NEMO_SIGMA)
delete_leading_zero(s) ==
    IF Len(s) >= 2 /\ s[1] = "0" /\ s[2] \in NEMO_DIGIT
    THEN delete_leading_zero(Tail(s))
    ELSE s

\* MoneyFst: fractional_amount = NEMO_DIGIT ** 2, fractional_amount @ delete_leading_zero
fractional_graph(s) ==
    IF Len(s) = 2 /\ IsDigits(s) THEN {delete_leading_zero(s)} ELSE {}

(***************************************************************************)
(* OrdinalFst.  Its tables write stems, endings and whole words, so an     *)
(* output symbol is here a piece of text; Str gives the text of a sequence *)
(* of symbols.                                                             *)
(***************************************************************************)
\* the characters of a text, as an input string
Chars(t) == [i \in 1..Len(t) |-> SubSeq(t, i, i)]

RECURSIVE Str(_)
\* the text written by a sequence of output symbols
Str(w) == IF w = <<>> THEN "" ELSE w[1] \o Str(Tail(w))

\* pynini.string_map(pairs): each key is read and its value written
string_map(pairs) == {<<Chars(p[1]), <<p[2]>>>> : p \in pairs}

\* a @ t with a an acceptor: the pairs of t whose input a accepts
Restrict(a, t) == {p \in t : p[1] \in a}

ordinal_digit_roots ==
    string_map({ <<"1", "πρώτ">>, <<"2", "δεύτερ">>, <<"3", "τρίτ">>,
                 <<"4", "τέταρτ">>, <<"5", "πέμπτ">>, <<"6", "έκτ">>,
                 <<"7", "έβδομ">>, <<"8", "όγδο">>, <<"9", "ένατ">> })

\* keyed by the tens digit alone
ordinal_tens_roots ==
    string_map({ <<"1", "δέκατ">>, <<"2", "εικοστ">>, <<"3", "τριακοστ">>,
                 <<"4", "τεσσαρακοστ">>, <<"5", "πεντηκοστ">>, <<"6", "εξηκοστ">>,
                 <<"7", "εβδομηκοστ">>, <<"8", "ογδοηκοστ">>, <<"9", "ενενηκοστ">> })

masc_ending == insert(<<"ος">>)

fem_ending == insert(<<"η">>)

\* the neuter ending written as the masculine one
neut_ending_mutant == insert(<<"ος">>)

neut_ending == insert(<<"ο">>)

graph_digit_masc == Concat(ordinal_digit_roots, masc_ending)

graph_digit_fem == Concat(ordinal_digit_roots, fem_ending)

graph_digit_neut == Concat(ordinal_digit_roots, neut_ending)

simple_teens == string_map({ <<"11", "ενδέκατ">>, <<"12", "δωδέκατ">> })

\* cross("0", "") + ordinal_tens_roots + ending: the zero is read first, the
\* key of the stem after it
graph_decades_masc ==
    Concat(Concat(cross(<<"0">>, <<>>), ordinal_tens_roots), masc_ending)

graph_decades_fem ==
    Concat(Concat(cross(<<"0">>, <<>>), ordinal_tens_roots), fem_ending)

graph_decades_neut ==
    Concat(Concat(cross(<<"0">>, <<>>), ordinal_tens_roots), neut_ending)

graph_compound_tens_masc ==
    Concat(Concat(Concat(Concat(ordinal_tens_roots, masc_ending), insert_space),
                  ordinal_digit_roots), masc_ending)

graph_compound_tens_fem ==
    Concat(Concat(Concat(Concat(ordinal_tens_roots, fem_ending), insert_space),
                  ordinal_digit_roots), fem_ending)

graph_compound_tens_neut ==
    Concat(Concat(Concat(Concat(ordinal_tens_roots, neut_ending), insert_space),
                  ordinal_digit_roots), neut_ending)

\* (NEMO_DIGIT - "0" - "1") + (NEMO_DIGIT - "0")
two_digit_not_teen ==
    {<<a, b>> : a \in NEMO_DIGIT \ {"0", "1"}, b \in NEMO_DIGIT \ {"0"}}

graph_teens_masc == Concat(simple_teens, masc_ending)

graph_teens_fem == Concat(simple_teens, fem_ending)

graph_teens_neut == Concat(simple_teens, neut_ending)

teens_13_19_masc ==
    string_map({ <<"13", "δέκατος τρίτος">>, <<"14", "δέκατος τέταρτος">>,
                 <<"15", "δέκατος πέμπτος">>, <<"16", "δέκατος έκτος">>,
                 <<"17", "δέκατος έβδομος">>, <<"18", "δέκατος όγδοος">>,
                 <<"19", "δέκατος ένατος">> })

teens_13_19_fem ==
    string_map({ <<"13", "δέκατη τρίτη">>, <<"14", "δέκατη τέταρτη">>,
                 <<"15", "δέκατη πέμπτη">>, <<"16", "δέκατη έκτη">>,
                 <<"17", "δέκατη έβδομη">>, <<"18", "δέκατη όγδοη">>,
                 <<"19", "δέκατη ένατη">> })

teens_13_19_neut ==
    string_map({ <<"13", "δέκατο τρίτο">>, <<"14", "δέκατο τέταρτο">>,
                 <<"15", "δέκατο πέμπτο">>, <<"16", "δέκατο έκτο">>,
                 <<"17", "δέκατο έβδομο">>, <<"18", "δέκατο όγδοο">>,
                 <<"19", "δέκατο ένατο">> })

graph_all_teens_masc ==
    graph_teens_masc \cup teens_13_19_masc \cup cross(<<"1", "0">>, <<"δέκατος">>)

graph_all_teens_fem ==
    graph_teens_fem \cup teens_13_19_fem \cup cross(<<"1", "0">>, <<"δέκατη">>)

graph_all_teens_neut ==
    graph_teens_neut \cup teens_13_19_neut \cup cross(<<"1", "0">>, <<"δέκατο">>)

graph_ordinal_masc ==
    graph_digit_masc \cup graph_all_teens_masc \cup graph_decades_masc
    \cup Restrict(two_digit_not_teen, graph_compound_tens_masc)

graph_ordinal_fem ==
    graph_digit_fem \cup graph_all_teens_fem \cup graph_decades_fem
    \cup Restrict(two_digit_not_teen, graph_compound_tens_fem)

graph_ordinal_neut ==
    graph_digit_neut \cup graph_all_teens_neut \cup graph_decades_neut
    \cup Restrict(two_digit_not_teen, graph_compound_tens_neut)

graph_masc_tagged ==
    Concat(Concat(insert(<<"integer: \"">>), graph_ordinal_masc),
           insert(<<"\" morphosyntactic_features: \"masc\"">>))

graph_fem_tagged ==
    Concat(Concat(insert(<<"integer: \"">>), graph_ordinal_fem),
           insert(<<"\" morphosyntactic_features: \"fem\"">>))

graph_neut_tagged ==
    Concat(Concat(insert(<<"integer: \"">>), graph_ordinal_neut),
           insert(<<"\" morphosyntactic_features: \"neut\"">>))

\* number = closure(NEMO_DIGIT, 1, 2)
number(s) == Len(s) \in 1..2 /\ IsDigits(s)

masc_suffix == {Chars("ος"), Chars("ός")}

\* the markers in alpha left out, the neuter marker taken in
fem_suffix_mutant == {Chars("η"), Chars("ή"), Chars("ο")}

fem_suffix == {Chars("η"), Chars("ή"), Chars("α"), Chars("ά")}

neut_suffix == {Chars("ο"), Chars("ό")}

\* number + delete(suffix): the numerals left of the token s by deleting one
\* of the suffixes at its end
delete_suffix(s, suffix) ==
    {SubSeq(s, 1, k) : k \in {j \in 1..Len(s) : /\ number(SubSeq(s, 1, j))
                                                /\ SubSeq(s, j + 1, Len(s)) \in suffix}}

\* the branch of the period left out
marked_branches_mutant(s) ==
    {<<n, "masc">> : n \in delete_suffix(s, masc_suffix)}
    \cup {<<n, "fem">> : n \in delete_suffix(s, fem_suffix)}
    \cup {<<n, "neut">> : n \in delete_suffix(s, neut_suffix)}

\* the four branches of graph: the numerals each branch hands to its tagged
\* graph, with the gender of that graph
marked_branches(s) ==
    {<<n, "masc">> : n \in delete_suffix(s, masc_suffix)}
    \cup {<<n, "fem">> : n \in delete_suffix(s, fem_suffix)}
    \cup {<<n, "neut">> : n \in delete_suffix(s, neut_suffix)}
    \cup {<<n, "masc">> : n \in delete_suffix(s, {<<".">>})}

\* the masculine tagged graph alone
unmarked_branches_mutant(s) ==
    {<<n, "masc">> : n \in delete_suffix(s, {<<>>, Chars("ος"), Chars("η"), Chars("ο"), <<".">>})}

\* if not deterministic: number + delete(closure(union("ος", "η", "ο", "."), 0, 1))
\* composed with the union of the three tagged graphs
unmarked_branches(s) ==
    {<<n, g>> : n \in delete_suffix(s, {<<>>, Chars("ος"), Chars("η"), Chars("ο"), <<".">>}),
                g \in {"masc", "fem", "neut"}}

\* the tagged graph of a gender
graph_tagged(g) ==
    CASE g = "masc" -> graph_masc_tagged
      [] g = "fem" -> graph_fem_tagged
      [] g = "neut" -> graph_neut_tagged

(***************************************************************************)
(* MoneyFst, tagger.                                                       *)
(***************************************************************************)
currency_symbols ==
    string_map({ <<"€", "ευρώ">>, <<"$", "δολάρια">>, <<"£", "λίρες">>, <<"¥", "γιεν">> })

decimal_separator == {",", "."}

\* integer_amount @ cardinal_graph, integer_amount = closure(NEMO_DIGIT, 1)
integer_graph(s) == IF Len(s) >= 1 /\ IsDigits(s) THEN graph(s) ELSE {}

\* fractional_amount @ delete_leading_zero @ cardinal_graph
cents_graph(s) == ImgSet(graph, fractional_graph(s))

\* Pattern 1: the symbol, then the amount
graph_symbol_before(s) ==
    IF Len(s) < 2 THEN {}
    ELSE {<<"currency: \"">> \o c \o <<"\" integer_part: \"">> \o w \o <<"\"">> :
          c \in Img(currency_symbols, <<s[1]>>), w \in integer_graph(Tail(s))}

\* Pattern 2: the amount, then the symbol
graph_symbol_after(s) ==
    IF Len(s) < 2 THEN {}
    ELSE {<<"integer_part: \"">> \o w \o <<"\" currency: \"">> \o c \o <<"\"">> :
          w \in integer_graph(SubSeq(s, 1, Len(s) - 1)),
          c \in Img(currency_symbols, <<s[Len(s)]>>)}

\* Pattern 3: the symbol, the amount, a separator and two digits of cents
graph_with_cents_before(s) ==
    IF Len(s) < 5 \/ s[Len(s) - 2] \notin decimal_separator THEN {}
    ELSE {<<"currency: \"">> \o c \o <<"\" integer_part: \"">> \o w \o <<"\"">>
          \o <<" fractional_part: \"">> \o f \o <<"\" currency_minor: \"λεπτά\"">> :
          c \in Img(currency_symbols, <<s[1]>>),
          w \in integer_graph(SubSeq(s, 2, Len(s) - 3)),
          f \in cents_graph(SubSeq(s, Len(s) - 1, Len(s)))}

\* Pattern 4: the amount, a separator, two digits of cents and the symbol
graph_with_cents_after(s) ==
    IF Len(s) < 5 \/ s[Len(s) - 3] \notin decimal_separator THEN {}
    ELSE {<<"integer_part: \"">> \o w \o <<"\"">>
          \o <<" fractional_part: \"">> \o f \o <<"\" currency: \"">> \o c
          \o <<"\" currency_minor: \"λεπτά\"">> :
          w \in integer_graph(SubSeq(s, 1, Len(s) - 4)),
          f \in cents_graph(SubSeq(s, Len(s) - 2, Len(s) - 1)),
          c \in Img(currency_symbols, <<s[Len(s)]>>)}

\* graph of the tagger: the union of the four patterns
money_graph(s) ==
    graph_with_cents_before(s) \cup graph_with_cents_after(s)
    \cup graph_symbol_before(s) \cup graph_symbol_after(s)

\* final_graph = self.add_tokens(graph)
money_fst(s) == {<<"money { ">> \o t \o <<" }">> : t \in money_graph(s)}

(***************************************************************************)
(* Verbalizers.  A verbalizer reads the characters of a tagged text.  It   *)
(* is applied from left to right to a set of configurations <<text written *)
(* so far, characters still to read>>; each operator below is one factor   *)
(* of a concatenation.                                                     *)
(***************************************************************************)
\* the configuration before anything is read
Start(s) == {<<"", s>>}

\* the texts written by the configurations that have read everything
Finish(P) == {p[1] : p \in {q \in P : q[2] = <<>>}}

\* + pynutil.delete(t)
Del(t, P) ==
    {<<p[1], SubSeq(p[2], Len(t) + 1, Len(p[2]))>> :
     p \in {q \in P : Len(q[2]) >= Len(t) /\ SubSeq(q[2], 1, Len(t)) = Chars(t)}}

\* + pynutil.insert(t)
Ins(t, P) == {<<p[1] \o t, p[2]>> : p \in P}

\* + delete_space: any number of spaces deleted
delete_space(P) ==
    UNION {{<<p[1], SubSeq(p[2], k + 1, Len(p[2]))>> :
            k \in {j \in 0..Len(p[2]) : \A i \in 1..j : p[2][i] = " "}} : p \in P}

\* + pynini.closure(NEMO_NOT_QUOTE, 1): one or more characters other than the
\* double quote, copied
NEMO_NOT_QUOTE(P) ==
    UNION {{<<p[1] \o Str(SubSeq(p[2], 1, k)), SubSeq(p[2], k + 1, Len(p[2]))>> :
            k \in {j \in 1..Len(p[2]) : \A i \in 1..j : p[2][i] # "\""}} : p \in P}

\* delete(label) + delete_space + delete("\"") + closure(NEMO_NOT_QUOTE, 1)
\* + delete("\""): the form of every field of the money verbalizer
money_field(label, P) ==
    Del("\"", NEMO_NOT_QUOTE(Del("\"", delete_space(Del(label, P)))))

currency(P) == money_field("currency:", P)

money_integer_part(P) == money_field("integer_part:", P)

money_fractional_part(P) == money_field("fractional_part:", P)

currency_minor(P) == money_field("currency_minor:", P)

graph_currency_first(P) ==
    money_integer_part(delete_space(Ins(" ", currency(P))))

graph_integer_first(P) ==
    currency(delete_space(Ins(" ", money_integer_part(P))))

\* currency, integer_part, " και ", fractional_part, currency_minor
graph_with_cents(P) ==
    LET afterCurrency == delete_space(delete_space(Ins(" ", currency(P))))
        afterInteger == Ins(" και ", delete_space(money_integer_part(afterCurrency)))
        afterFraction == Ins(" ", delete_space(money_fractional_part(afterInteger)))
    IN  currency_minor(afterFraction)

\* graph of the verbalizer: graph_with_cents | graph_currency_first |
\* graph_integer_first (graph_with_cents_v2 is built and left out)
money_verbalizer_graph(P) ==
    graph_with_cents(P) \cup graph_currency_first(P) \cup graph_integer_first(P)

\* self.delete_tokens(graph): "money {" and "}" deleted around graph
money_delete_tokens(s) ==
    LET opened == delete_space(Del("{", delete_space(Del("money", Start(s)))))
    IN  Finish(Del("}", delete_space(money_verbalizer_graph(opened))))

(***************************************************************************)
(* DecimalFst, tagger and verbalizer.                                      *)
(***************************************************************************)
\* integer_part = insert("integer_part: \"") + cardinal_graph + insert("\"")
decimal_integer_part(s) == {<<"integer_part: \"">> \o w \o <<"\"">> : w \in graph(s)}

digit_with_zero == digit \cup zero

single_digit == digit_with_zero

\* the fraction read as one number
fractional_digits_mutant(s) == IF Len(s) >= 1 /\ IsDigits(s) THEN graph(s) ELSE {}

RECURSIVE fractional_digits(_)
\* closure(single_digit + insert_space, 0) + single_digit
fractional_digits(s) ==
    IF s = <<>> THEN {}
    ELSE Img(single_digit, s)
         \cup {w \o <<" ">> \o r : w \in Img(single_digit, <<s[1]>>),
                                   r \in fractional_digits(Tail(s))}

decimal_fractional_part(s) ==
    {<<" fractional_part: \"">> \o f \o <<"\"">> : f \in fractional_digits(s)}

quantity == string_map({ <<"χιλιάδες", "χιλιάδες">>, <<"εκατομμύρια", "εκατομμύρια">>,
                         <<"δισεκατομμύρια", "δισεκατομμύρια">> })

\* closure(insert(" quantity: \"") + delete(" ") + quantity + insert("\""), 0, 1)
optional_quantity(s) ==
    (IF s = <<>> THEN {<<>>} ELSE {})
    \cup (IF s # <<>> /\ s[1] = " "
          THEN {<<" quantity: \"">> \o q \o <<"\"">> : q \in Img(quantity, Tail(s))}
          ELSE {})

\* graph_decimal | graph_decimal_no_integer, + optional_quantity: every split
\* of s into an integer part (or none), a separator, fraction digits and a rest
decimal_graph(s) ==
    UNION {UNION {{i \o f \o q :
                   i \in IF k = 1 THEN {<<"integer_part: \"μηδέν\"">>}
                         ELSE decimal_integer_part(SubSeq(s, 1, k - 1)),
                   f \in decimal_fractional_part(SubSeq(s, k + 1, j)),
                   q \in optional_quantity(SubSeq(s, j + 1, Len(s)))} :
                  j \in k + 1..Len(s)} :
           k \in {n \in 1..Len(s) : s[n] \in decimal_separator}}

\* final_graph = self.add_tokens(graph)
decimal_fst(s) == {<<"decimal { ">> \o t \o <<" }">> : t \in decimal_graph(s)}

\* verbalizer: integer_part
verbalize_integer_part(P) ==
    Del("\"", NEMO_NOT_QUOTE(Del("\"", delete_space(Del("integer_part:", P)))))

\* verbalizer: fractional_part, with " κόμμα " written in front of the value
verbalize_fractional_part(P) ==
    LET label == delete_space(Del("fractional_part:", delete_space(P)))
    IN  Del("\"", NEMO_NOT_QUOTE(Del("\"", Ins(" κόμμα ", label))))

\* verbalizer: quantity
verbalize_quantity(P) ==
    LET label == delete_space(Del("quantity:", delete_space(P)))
    IN  Del("\"", NEMO_NOT_QUOTE(Del("\"", Ins(" ", label))))

\* verbalizer: optional_quantity = closure(quantity, 0, 1)
verbalize_optional_quantity(P) == P \cup verbalize_quantity(P)

\* verbalizer: graph = integer_part + fractional_part + optional_quantity
decimal_verbalizer_graph(P) ==
    verbalize_optional_quantity(verbalize_fractional_part(verbalize_integer_part(P)))

\* self.delete_tokens(graph)
decimal_delete_tokens(s) ==
    LET opened == delete_space(Del("{", delete_space(Del("decimal", Start(s)))))
    IN  Finish(Del("}", delete_space(decimal_verbalizer_graph(opened))))

(***************************************************************************)
(* TelephoneFst, tagger.                                                   *)
(***************************************************************************)
digit_to_word ==
    string_map({ <<"0", "μηδέν">>, <<"1", "ένα">>, <<"2", "δύο">>, <<"3", "τρία">>,
                 <<"4", "τέσσερα">>, <<"5", "πέντε">>, <<"6", "έξι">>, <<"7", "επτά">>,
                 <<"8", "οκτώ">>, <<"9", "εννέα">> })

\* the characters delete_separator deletes
delete_separator == {" ", "-", "(", ")", "."}

\* closure(delete_separator, 0, 1): the rests of s after at most one separator
optional_separator(s) ==
    {s} \cup (IF s # <<>> /\ s[1] \in delete_separator THEN {Tail(s)} ELSE {})

country_code_30 ==
    cross(Chars("+30"), <<"τριάντα">>) \cup cross(Chars("0030"), <<"τριάντα">>)

RECURSIVE phone_digits(_)
\* closure((NEMO_DIGIT @ digit_to_word) + optional_separator + insert_space)
\* + (NEMO_DIGIT @ digit_to_word)
phone_digits(s) ==
    IF s = <<>> THEN {}
    ELSE Img(digit_to_word, s)
         \cup {w \o <<" ">> \o r : w \in Img(digit_to_word, <<s[1]>>),
                                   r \in ImgSet(phone_digits, optional_separator(Tail(s)))}

\* phone_digits @ clean_spaces
phone_number(s) == {delete_extra_spaces(w) : w \in phone_digits(s)}

\* Pattern 1: the country code, at most one separator, the number
graph_with_country_code(s) ==
    UNION {{<<"country_code: \"">> \o c \o <<"\"", " number_part: \"">> \o n \o <<"\"">> :
            c \in Img(country_code_30, SubSeq(s, 1, k)),
            n \in ImgSet(phone_number, optional_separator(SubSeq(s, k + 1, Len(s))))} :
           k \in 0..Len(s)}

\* Pattern 2: the number alone (greek_prefix is built and not used)
graph_number_only(s) == {<<"number_part: \"">> \o n \o <<"\"">> : n \in phone_number(s)}

telephone_graph(s) == graph_with_country_code(s) \cup graph_number_only(s)

\* final_graph = self.add_tokens(graph)
telephone_fst(s) == {<<"telephone { ">> \o t \o <<" }">> : t \in telephone_graph(s)}

(***************************************************************************)
(* Input tokens.                                                           *)
(***************************************************************************)
SmallDigits == {"0", "1", "2"}

SmallChars == {"0", "1", ".", " ", "-", "a"}

Strings(A, n) == UNION {[1..k -> A] : k \in 1..n}

\* round numbers d * 10^k
RoundTokens == {<<d>> \o Zeros(k) : d \in {"1", "2"}, k \in 0..MaxZeros}

\* tokens of the docstrings and of the grammar's comments
ExampleTokens ==
    { <<"1", "2", ".", "3", "4">>, <<"1", ".", "2", "3", "4", "5">>,
      <<"1", "2", "3", "4", ".", "5", "6", "7">>, <<"1", ".", ".", "2", "3", "4">>,
      <<".", "1", "2", "3">>, <<"0", ".", "1", "2", "3">>,
      <<"0", "0", "0", ".", "1", "2", "3">>, <<"1", ".", "2", "3", "4">>,
      <<"1", "2", "3", "4">>, <<"2", "0", "2", "4">>, <<"-", "5">>,
      <<"1", "0", "1", "0", "0", "0">>, <<"1", ".", "0", "0", "0", " ", "0", "0", "0">>,
      <<"5", "1", "9", ".", "0", "6", "0">>, <<"3", "1", "9", "0", "6", "0">>,
      <<"-", "7", "0", "0", " ", "0", "1", "3">>, <<"7", "0", "0", "1", "3">>,
      <<"1", "2", "0", "1">> \o Zeros(12), <<"-", "1", "2", "0", "1">> \o Zeros(12),
      <<"1", "2", "0", "1">> \o Zeros(11), <<"1", ".", "2", "1", "0", ".", "0", "0", "0">> }

PlainTokens ==
    Strings(SmallChars, ShortLen) \cup Strings(NEMO_DIGIT, DigitLen)
    \cup Strings(SmallDigits, MaxLen) \cup RoundTokens \cup ExampleTokens

RECURSIVE Group(_, _, _)
\* the digit string x written with a separator before every group of three
\* digits counted from the right: sep before the last group, then alt and
\* sep in turn
Group(x, sep, alt) ==
    IF Len(x) <= 3 THEN x
    ELSE Group(SubSeq(x, 1, Len(x) - 3), alt, sep) \o <<sep>>
         \o SubSeq(x, Len(x) - 2, Len(x))

\* how a token is written: as drawn, grouped with periods, grouped with
\* spaces, or grouped with both in turn
Styles == {"plain", ".", " ", ". "}

Grammars == {"cardinal", "minutes", "seconds", "fractional"}

\* what the construction of the grammars may meet: date.py hands NEMO_DIGIT
\* to cdrewrite where the closure of the alphabet is expected, and the rule
\* is then either the rule over closure(NEMO_DIGIT) or a rule that relates
\* strings of NEMO_DIGIT only; the whitelist file is read or is unreadable;
\* the units table has its rows, or rows of one column only, or no row
Builds ==
    [sigma_star : {"closure", "digit"},
     whitelist_file : {"read", "unreadable"},
     measurements_file : {"rows", "short rows", "empty"}]

DefaultBuild ==
    [sigma_star |-> "closure", whitelist_file |-> "read", measurements_file |-> "rows"]

(***************************************************************************)
(* State.                                                                  *)
(***************************************************************************)
VARIABLES
    grammar,    \* the grammar the token is given to
    plain,      \* the token as drawn, before it is written with separators
    style,      \* "plain", or the separator the token is written with
    tok,        \* the token
    pc,         \* the stage of the composition chain reached
    negative,   \* CardinalFst: whether optional_minus_graph read a minus sign
    body,       \* the strings handed to cardinal.graph
    digits,     \* ... after filter_punctuation's cardinal_string
    padded,     \* ... padded to Width
    raw,        \* ... after graph_trillions
    result,     \* the outputs of cardinal.graph
    tagged,     \* the outputs of the tagger's fst
    deterministic, \* the deterministic argument the grammars are built with
    spoken,     \* the outputs of the verbalizer on the strings in tagged
    build       \* what the construction of the grammars met: the tables read
                \* from the data files and the reading of date.py's rewrite

vars == <<grammar, plain, style, tok, pc, negative, body, digits, padded, raw,
          result, tagged, deterministic, spoken, build>>

Init ==
    /\ grammar \in Grammars
    /\ plain \in PlainTokens
    /\ style \in Styles
    /\ style # "plain" => grammar = "cardinal" /\ IsDigits(plain) /\ Len(plain) >= 4
    /\ style = ". " => Len(plain) >= 7
    /\ grammar # "cardinal" => Len(plain) <= DigitLen
    /\ tok = CASE style = "plain" -> plain
                [] style = "." -> Group(plain, ".", ".")
                [] style = " " -> Group(plain, " ", " ")
                [] style = ". " -> Group(plain, ".", " ")
    /\ pc = "start"
    /\ negative = FALSE
    /\ body = {}
    /\ digits = {}
    /\ padded = {}
    /\ raw = {}
    /\ result = {}
    /\ tagged = {}
    /\ deterministic = TRUE
    /\ spoken = {}
    /\ build = DefaultBuild

(***************************************************************************)
(* Stages.                                                                 *)
(***************************************************************************)
\* CardinalFst: closure(insert("negative: ") + cross("-", "\"true\" "), 0, 1)
\* in front of self.graph, which reads no minus sign itself
optional_minus_graph ==
    /\ pc = "start"
    /\ grammar = "cardinal"
    /\ negative' = (tok # <<>> /\ tok[1] = "-")
    /\ body' = {IF tok # <<>> /\ tok[1] = "-" THEN Tail(tok) ELSE tok}
    /\ pc' = "body"
    /\ UNCHANGED <<grammar, plain, style, tok, digits, padded, raw, result, tagged>>
    /\ UNCHANGED <<deterministic, spoken, build>>

\* TimeFst: minutes_graph and seconds_graph up to cardinal_graph
TimeField ==
    /\ pc = "start"
    /\ grammar \in {"minutes", "seconds"}
    /\ body' = minutes_graph(tok)
    /\ pc' = "body"
    /\ UNCHANGED <<grammar, plain, style, tok, negative, digits, padded, raw, result, tagged>>
    /\ UNCHANGED <<deterministic, spoken, build>>

\* MoneyFst: fractional_graph up to cardinal_graph
MoneyField ==
    /\ pc = "start"
    /\ grammar = "fractional"
    /\ body' = fractional_graph(tok)
    /\ pc' = "body"
    /\ UNCHANGED <<grammar, plain, style, tok, negative, digits, padded, raw, result, tagged>>
    /\ UNCHANGED <<deterministic, spoken, build>>

\* filter_punctuation: cardinal_string @ fst
FilterPunctuation ==
    /\ pc = "body"
    /\ digits' = ImgSet(cardinal_string, body)
    /\ pc' = "filtered"
    /\ UNCHANGED <<grammar, plain, style, tok, negative, body, padded, raw, result, tagged>>
    /\ UNCHANGED <<deterministic, spoken, build>>

\* non-zero first digit, zeros inserted at [BOS], @ NEMO_DIGIT ** 15
Pad ==
    /\ pc = "filtered"
    /\ padded' = ImgSet(pad_to_width, digits)
    /\ pc' = "padded"
    /\ UNCHANGED <<grammar, plain, style, tok, negative, body, digits, raw, result, tagged>>
    /\ UNCHANGED <<deterministic, spoken, build>>

\* @ graph_trillions
Compose ==
    /\ pc = "padded"
    /\ raw' = ImgSet(graph_trillions, padded)
    /\ pc' = "composed"
    /\ UNCHANGED <<grammar, plain, style, tok, negative, body, digits, padded, result, tagged>>
    /\ UNCHANGED <<deterministic, spoken, build>>

\* @ delete_extra_spaces @ clean_leading_space @ clean_trailing_space, and
\* self.graph |= graph_zero
Clean ==
    /\ pc = "composed"
    /\ result' = {clean_spaces(w) : w \in raw} \cup ImgSet(LAMBDA d : Img(graph_zero, d), digits)
    /\ pc' = "done"
    /\ UNCHANGED <<grammar, plain, style, tok, negative, body, digits, padded, raw, tagged>>
    /\ UNCHANGED <<deterministic, spoken, build>>

\* the output of optional_minus_graph left out
final_graph_mutant ==
    /\ pc = "done"
    /\ grammar = "cardinal"
    /\ tagged' = {<<"cardinal { ", "integer: \"">> \o w \o <<"\"", " }">> : w \in result}
    /\ pc' = "tagged"
    /\ UNCHANGED <<grammar, plain, style, tok, negative, body, digits, padded, raw, result>>
    /\ UNCHANGED <<deterministic, spoken, build>>

\* final_graph = optional_minus_graph + insert("integer: \"") + self.graph
\* + insert("\""), wrapped by add_tokens
final_graph ==
    /\ pc = "done"
    /\ grammar = "cardinal"
    /\ tagged' = {<<"cardinal { ">>
                  \o (IF negative THEN <<"negative: ", "\"true\" ">> ELSE <<>>)
                  \o <<"integer: \"">> \o w \o <<"\"", " }">> : w \in result}
    /\ pc' = "tagged"
    /\ UNCHANGED <<grammar, plain, style, tok, negative, body, digits, padded, raw, result>>
    /\ UNCHANGED <<deterministic, spoken, build>>

Next ==
    \/ optional_minus_graph
    \/ TimeField
    \/ MoneyField
    \/ FilterPunctuation
    \/ Pad
    \/ Compose
    \/ Clean
    \/ final_graph

Spec == Init /\ [][Next]_vars

\* the composer has produced its outputs for the strings in body
Done == pc \in {"done", "tagged"}

(***************************************************************************)
(* DateFst, tagger.                                                        *)
(***************************************************************************)
\* data/dates/months.tsv: the genitive name of a month and its number
months ==
    { <<"Ιανουαρίου", "1">>, <<"Φεβρουαρίου", "2">>, <<"Μαρτίου", "3">>,
      <<"Απριλίου", "4">>, <<"Μαΐου", "5">>, <<"Ιουνίου", "6">>,
      <<"Ιουλίου", "7">>, <<"Αυγούστου", "8">>, <<"Σεπτεμβρίου", "9">>,
      <<"Οκτωβρίου", "10">>, <<"Νοεμβρίου", "11">>, <<"Δεκεμβρίου", "12">> }

\* month_graph = pynini.invert(months): number -> name
month_graph == {<<Chars(p[2]), <<p[1]>>>> : p \in months}

separator == {"/", "-", "."}

RECURSIVE delete_zeros(_)
\* a zero at the start is deleted whatever follows it, and the next zero is
\* at the start in its turn
delete_zeros(s) == IF s # <<>> /\ s[1] = "0" THEN delete_zeros(Tail(s)) ELSE s

\* DateFst: cdrewrite(delete("0"), "[BOS]", "", NEMO_DIGIT).  The last
\* argument is one digit, not the closure of the alphabet: the rule is
\* either read over closure(NEMO_DIGIT), or it relates one-digit strings only
date_delete_leading_zero(s) ==
    IF build.sigma_star = "closure" THEN {delete_zeros(s)}
    ELSE IF Len(s) = 1 THEN {delete_zeros(s)}
    ELSE {}

\* day = closure(NEMO_DIGIT, 1, 2) @ delete_leading_zero @ cardinal_graph
day(s) ==
    IF Len(s) \in 1..2 /\ IsDigits(s)
    THEN ImgSet(graph, date_delete_leading_zero(s))
    ELSE {}

\* month = month_num @ delete_leading_zero @ month_graph
month(s) ==
    IF Len(s) \in 1..2 /\ IsDigits(s)
    THEN UNION {Img(month_graph, z) : z \in date_delete_leading_zero(s)}
    ELSE {}

\* year = (year_2digit | year_4digit) @ cardinal_graph
year(s) == IF Len(s) \in {2, 4} /\ IsDigits(s) THEN graph(s) ELSE {}

day_field(s) == {<<"day: \"">> \o w \o <<"\"">> : w \in day(s)}

month_field(s) == {<<" month: \"">> \o w \o <<"\"">> : w \in month(s)}

year_field(s) == {<<" year: \"">> \o w \o <<"\"">> : w \in year(s)}

\* DD/MM/YYYY: day, separator, month, separator, year
graph_dmy(s) ==
    UNION {{d \o m \o y : d \in day_field(SubSeq(s, 1, i - 1)),
                          m \in month_field(SubSeq(s, i + 1, j - 1)),
                          y \in year_field(SubSeq(s, j + 1, Len(s)))} :
           i \in {k \in 1..Len(s) : s[k] \in separator},
           j \in {k \in 1..Len(s) : s[k] \in separator}}

\* DD/MM: day, separator, month
graph_dm(s) ==
    UNION {{d \o m : d \in day_field(SubSeq(s, 1, i - 1)),
                     m \in month_field(SubSeq(s, i + 1, Len(s)))} :
           i \in {k \in 1..Len(s) : s[k] \in separator}}

\* month_name_graph = pynini.project(month_name, "input"): the names
month_name_graph(s) == {<<p[1]>> : p \in {q \in months : Chars(q[1]) = s}}

IsSpaces(s) == \A i \in 1..Len(s) : s[i] = " "

\* closure(delete(closure(" ", 1)) + year_field, 0, 1)
optional_year(s) ==
    (IF s = <<>> THEN {<<>>} ELSE {})
    \cup UNION {year_field(SubSeq(s, k + 1, Len(s))) :
                k \in {j \in 1..Len(s) : IsSpaces(SubSeq(s, 1, j))}}

\* "15 Μαρτίου 2024": day, spaces, a month name, and the year if any
graph_text_date(s) ==
    UNION {UNION {UNION {{d \o <<" month: \"">> \o m \o <<"\"">> \o y :
                          d \in day_field(SubSeq(s, 1, i)),
                          m \in month_name_graph(SubSeq(s, j, k)),
                          y \in optional_year(SubSeq(s, k + 1, Len(s)))} :
                         k \in j..Len(s)} :
                  j \in {n \in (i + 2)..Len(s) : IsSpaces(SubSeq(s, i + 1, n - 1))}} :
           i \in 1..Len(s)}

\* graph = graph_dmy | graph_dm | graph_text_date
date_graph(s) == graph_dmy(s) \cup graph_dm(s) \cup graph_text_date(s)

\* final_graph = self.add_tokens(graph)
date_fst(s) == {<<"date { ">> \o t \o <<" }">> : t \in date_graph(s)}

(***************************************************************************)
(* WhiteListFst, tagger, built with its default input_case ("cased").      *)
(***************************************************************************)
\* data/whitelist.tsv: written form, spoken form
whitelist_tsv == {<<"κ.", "κύριος">>}

\* try: pynini.string_file(whitelist_path); except: pynini.accep(""), which as
\* a transducer relates the empty string to itself
whitelist ==
    IF build.whitelist_file = "read" THEN string_map(whitelist_tsv) ELSE cross(<<>>, <<>>)

\* graph = insert("name: \"") + whitelist + insert("\"")
whitelist_graph(s) == {<<"name: \"">> \o w \o <<"\"">> : w \in Img(whitelist, s)}

\* final_graph = self.add_tokens(graph)
whitelist_fst(s) == {<<"whitelist { ">> \o t \o <<" }">> : t \in whitelist_graph(s)}

(***************************************************************************)
(* MeasureFst, tagger and verbalizer, built without a fraction grammar.    *)
(***************************************************************************)
\* load_labels(get_abs_path("data/measures/measurements.tsv")): rows of unit
\* symbol, singular name, plural name
measurements_data ==
    CASE build.measurements_file = "rows" ->
             { <<"km", "χιλιόμετρο", "χιλιόμετρα">>, <<"kg", "κιλό", "κιλά">>,
               <<"m", "μέτρο", "μέτρα">> }
      [] build.measurements_file = "short rows" -> {<<"km">>, <<"kg">>}
      [] build.measurements_file = "empty" -> {}

\* the rows with len(row) >= 2: (symbol, singular)
unit_singular == {<<row[1], row[2]>> : row \in {r \in measurements_data : Len(r) >= 2}}

\* the rows with len(row) >= 2: (symbol, plural), the singular if no plural
unit_plural ==
    {<<row[1], IF Len(row) > 2 THEN row[3] ELSE row[2]>> :
     row \in {r \in measurements_data : Len(r) >= 2}}

\* pynini.string_map(unit_singular) if unit_singular else pynini.accep("")
units_singular ==
    IF unit_singular # {} THEN string_map(unit_singular) ELSE cross(<<>>, <<>>)

units_plural ==
    IF unit_plural # {} THEN string_map(unit_plural) ELSE cross(<<>>, <<>>)

\* units = units_plural | units_singular
units == units_plural \cup units_singular

\* closure(delete(" "), 0, 1): the rests of s after at most one space
optional_space(s) == {s} \cup (IF s # <<>> /\ s[1] = " " THEN {Tail(s)} ELSE {})

\* cardinal.fst: CardinalFst's final_graph as a relation on strings
cardinal_fst(s) ==
    LET minus == s # <<>> /\ s[1] = "-"
    IN  {<<"cardinal { ">>
         \o (IF minus THEN <<"negative: ", "\"true\" ">> ELSE <<>>)
         \o <<"integer: \"">> \o w \o <<"\"", " }">> :
         w \in graph(IF minus THEN Tail(s) ELSE s)}

\* + optional_space + insert(" units: \"") + units + insert("\"")
measure_units(s) ==
    {<<" units: \"">> \o u \o <<"\"">> : u \in UNION {Img(units, r) : r \in optional_space(s)}}

\* Cardinal measure: insert("cardinal { ") + cardinal.fst + insert(" }") + ...
graph_cardinal(s) ==
    UNION {{<<"cardinal { ">> \o c \o <<" }">> \o u :
            c \in cardinal_fst(SubSeq(s, 1, k)),
            u \in measure_units(SubSeq(s, k + 1, Len(s)))} : k \in 0..Len(s)}

\* Decimal measure: insert("decimal { ") + decimal.fst + insert(" }") + ...
graph_decimal(s) ==
    UNION {{<<"decimal { ">> \o c \o <<" }">> \o u :
            c \in decimal_fst(SubSeq(s, 1, k)),
            u \in measure_units(SubSeq(s, k + 1, Len(s)))} : k \in 0..Len(s)}

\* graph = graph_cardinal | graph_decimal
measure_graph(s) == graph_cardinal(s) \cup graph_decimal(s)

\* final_graph = self.add_tokens(graph)
measure_fst(s) == {<<"measure { ">> \o t \o <<" }">> : t \in measure_graph(s)}

\* the cardinal verbalizer's fst (verbalizers/cardinal.py): "cardinal {" and
\* "}" deleted around the negative field, read as "μείον ", if any, and the
\* value of the integer field
cardinal_verbalizer_fst(P) ==
    LET opened == delete_space(Del("{", delete_space(Del("cardinal", P))))
        signed == opened \cup delete_space(Del("\"", Ins("μείον ", Del("negative: \"true", opened))))
        value == Del("\"", NEMO_NOT_QUOTE(Del("\"", delete_space(Del("integer:", signed)))))
    IN  Del("}", delete_space(value))

\* the decimal verbalizer's fst, as a factor
decimal_verbalizer_fst(P) ==
    LET opened == delete_space(Del("{", delete_space(Del("decimal", P))))
    IN  Del("}", delete_space(decimal_verbalizer_graph(opened)))

\* delete("cardinal {") + delete_space + cardinal.fst + delete_space + delete("}")
cardinal_content(P) ==
    Del("}", delete_space(cardinal_verbalizer_fst(delete_space(Del("cardinal {", P)))))

\* delete("decimal {") + delete_space + decimal.fst + delete_space + delete("}")
decimal_content(P) ==
    Del("}", delete_space(decimal_verbalizer_fst(delete_space(Del("decimal {", P)))))

\* verbalizer: units, written after a space
verbalize_units(P) ==
    LET label == delete_space(Del("units:", delete_space(P)))
    IN  Del("\"", NEMO_NOT_QUOTE(Del("\"", Ins(" ", label))))

\* verbalizer: graph = graph_cardinal | graph_decimal
measure_verbalizer_graph(P) ==
    verbalize_units(cardinal_content(P)) \cup verbalize_units(decimal_content(P))

\* self.delete_tokens(graph)
measure_delete_tokens(s) ==
    LET opened == delete_space(Del("{", delete_space(Del("measure", Start(s)))))
    IN  Finish(Del("}", delete_space(measure_verbalizer_graph(opened))))

(***************************************************************************)
(* TimeFst, tagger and verbalizer.                                         *)
(***************************************************************************)
time_separator == {":", "."}

\* hours_graph = closure(NEMO_DIGIT, 1, 2) @ delete_leading_zero_single @ cardinal_graph
hours_graph(s) ==
    IF Len(s) \in 1..2 /\ IsDigits(s) THEN graph(delete_leading_zero_single(s)) ELSE {}

\* data/time/time_suffix.tsv: spoken form, written form
time_suffix == {<<"προ μεσημβρίας", "π.μ.">>, <<"μετά μεσημβρίας", "μ.μ.">>}

\* suffix_graph = pynini.invert(time_suffix): written -> spoken
suffix_graph == {<<Chars(p[2]), <<p[1]>>>> : p \in time_suffix}

hours_field(s) == {<<"hours: \"">> \o w \o <<"\"">> : w \in hours_graph(s)}

\* minutes_field, with minutes_graph = minutes @ delete_leading_zero_single @ cardinal_graph
minutes_field(s) ==
    {<<" minutes: \"">> \o w \o <<"\"">> : w \in ImgSet(graph, minutes_graph(s))}

\* seconds_field: seconds is built as minutes is
seconds_field(s) ==
    {<<" seconds: \"">> \o w \o <<"\"">> : w \in ImgSet(graph, minutes_graph(s))}

\* closure(delete(closure(" ", 0, 1)) + insert(" suffix: \"") + suffix_graph
\* + insert("\""), 0, 1)
time_optional_suffix(s) ==
    (IF s = <<>> THEN {<<>>} ELSE {})
    \cup {<<" suffix: \"">> \o w \o <<"\"">> :
          w \in UNION {Img(suffix_graph, r) : r \in optional_space(s)}}

\* HH:MM, then what is left for the suffix
graph_hm(s) ==
    UNION {UNION {{h \o m \o x : h \in hours_field(SubSeq(s, 1, i - 1)),
                                 m \in minutes_field(SubSeq(s, i + 1, j)),
                                 x \in time_optional_suffix(SubSeq(s, j + 1, Len(s)))} :
                  j \in i..Len(s)} :
           i \in {k \in 1..Len(s) : s[k] \in time_separator}}

\* HH:MM:SS, then what is left for the suffix
graph_hms(s) ==
    UNION {UNION {UNION {{h \o m \o c \o x :
                          h \in hours_field(SubSeq(s, 1, i - 1)),
                          m \in minutes_field(SubSeq(s, i + 1, j - 1)),
                          c \in seconds_field(SubSeq(s, j + 1, n)),
                          x \in time_optional_suffix(SubSeq(s, n + 1, Len(s)))} :
                         n \in j..Len(s)} :
                  j \in {k \in (i + 1)..Len(s) : s[k] \in time_separator}} :
           i \in {k \in 1..Len(s) : s[k] \in time_separator}}

\* graph = (graph_hms | graph_hm) + optional_suffix
time_graph(s) == graph_hms(s) \cup graph_hm(s)

\* final_graph = self.add_tokens(graph)
time_fst(s) == {<<"time { ">> \o t \o <<" }">> : t \in time_graph(s)}

\* delete(label) + delete_space + delete("\"") + closure(NEMO_NOT_QUOTE, 1)
\* + delete("\""): a field read and its value written
verbalize_field(label, P) ==
    Del("\"", NEMO_NOT_QUOTE(Del("\"", delete_space(Del(label, P)))))

\* delete_space + delete(label) + delete_space + insert(connector)
\* + delete("\"") + closure(NEMO_NOT_QUOTE, 1) + delete("\""): a field read and
\* its value written after a connector
verbalize_connected(label, connector, P) ==
    LET opened == delete_space(Del(label, delete_space(P)))
    IN  Del("\"", NEMO_NOT_QUOTE(Del("\"", Ins(connector, opened))))

\* verbalizer: hours
verbalize_hours(P) == verbalize_field("hours:", P)

\* minutes after a space alone
verbalize_minutes_mutant(P) == verbalize_connected("minutes:", " ", P)

\* verbalizer: minutes, after " και "
verbalize_minutes(P) == verbalize_connected("minutes:", " και ", P)

\* verbalizer: optional_seconds = closure(seconds, 0, 1), after " και "
verbalize_optional_seconds(P) == P \cup verbalize_connected("seconds:", " και ", P)

\* verbalizer: optional_suffix = closure(suffix, 0, 1), after a space
verbalize_optional_suffix(P) == P \cup verbalize_connected("suffix:", " ", P)

\* verbalizer: graph = hours + minutes + optional_seconds + optional_suffix
time_verbalizer_graph(P) ==
    verbalize_optional_suffix(verbalize_optional_seconds(verbalize_minutes(verbalize_hours(P))))

\* self.delete_tokens(graph)
time_delete_tokens(s) ==
    LET opened == delete_space(Del("{", delete_space(Del("time", Start(s)))))
    IN  Finish(Del("}", delete_space(time_verbalizer_graph(opened))))

(***************************************************************************)
(* FractionFst, tagger and verbalizer.                                     *)
(***************************************************************************)
\* the character U+2044 (fraction slash), named by its code point
FRACTION_SLASH == "U+2044"

\* fraction_separator = pynini.union("/", U+2044)
fraction_separator == {"/", FRACTION_SLASH}

\* numerator = closure(NEMO_DIGIT, 1) @ cardinal_graph (denominator likewise)
numerator(s) == IF Len(s) >= 1 /\ IsDigits(s) THEN graph(s) ELSE {}

numerator_field(s) == {<<"numerator: \"">> \o w \o <<"\"">> : w \in numerator(s)}

denominator_field(s) == {<<" denominator: \"">> \o w \o <<"\"">> : w \in numerator(s)}

\* numerator_field + delete(fraction_separator) + denominator_field
graph_standard(s) ==
    UNION {{n \o d : n \in numerator_field(SubSeq(s, 1, i - 1)),
                     d \in denominator_field(SubSeq(s, i + 1, Len(s)))} :
           i \in {k \in 1..Len(s) : s[k] \in fraction_separator}}

\* integer_field = insert("integer_part: \"") + cardinal_graph + insert("\"")
integer_field(s) == {<<"integer_part: \"">> \o w \o <<"\"">> : w \in graph(s)}

\* integer_field + delete(" ") + insert(" ") + the standard fraction
graph_mixed(s) ==
    UNION {{i \o <<" ">> \o f : i \in integer_field(SubSeq(s, 1, k - 1)),
                                f \in graph_standard(SubSeq(s, k + 1, Len(s)))} :
           k \in {n \in 1..Len(s) : s[n] = " "}}

\* graph = graph_standard | graph_mixed (graph_special is built and left out)
fraction_graph(s) == graph_standard(s) \cup graph_mixed(s)

\* final_graph = self.add_tokens(graph)
fraction_fst(s) == {<<"fraction { ">> \o t \o <<" }">> : t \in fraction_graph(s)}

\* verbalizer: numerator
verbalize_numerator(P) == verbalize_field("numerator:", P)

\* verbalizer: denominator, after " προς "
verbalize_denominator(P) == verbalize_connected("denominator:", " προς ", P)

\* verbalizer: empty_denominator, read and not written
empty_denominator(P) ==
    Del("\"", Del("\"", delete_space(Del("denominator:", delete_space(P)))))

\* verbalizer: graph_simple = numerator + denominator
graph_simple(P) == verbalize_denominator(verbalize_numerator(P))

\* verbalizer: graph_special = numerator + empty_denominator
graph_special(P) == empty_denominator(verbalize_numerator(P))

\* verbalizer: graph_mixed = integer_part + insert(" και ") + delete_space
\* + numerator + denominator
verbalize_mixed(P) ==
    graph_simple(delete_space(Ins(" και ", verbalize_field("integer_part:", P))))

\* verbalizer: graph = graph_mixed | graph_simple | graph_special
fraction_verbalizer_graph(P) == verbalize_mixed(P) \cup graph_simple(P) \cup graph_special(P)

\* self.delete_tokens(graph)
fraction_delete_tokens(s) ==
    LET opened == delete_space(Del("{", delete_space(Del("fraction", Start(s)))))
    IN  Finish(Del("}", delete_space(fraction_verbalizer_graph(opened))))

(***************************************************************************)
(* TelephoneFst, verbalizer.                                               *)
(***************************************************************************)
\* verbalizer: country_code, written after "συν "
verbalize_country_code(P) ==
    Del("\"", NEMO_NOT_QUOTE(Del("\"", Ins("συν ", delete_space(Del("country_code:", P))))))

\* verbalizer: number_part
verbalize_number_part(P) == verbalize_field("number_part:", P)

\* verbalizer: graph_with_code = country_code + delete_space + insert(" ") + number_part
graph_with_code(P) == verbalize_number_part(Ins(" ", delete_space(verbalize_country_code(P))))

\* verbalizer: graph = graph_with_code | graph_without_code
telephone_verbalizer_graph(P) == graph_with_code(P) \cup verbalize_number_part(P)

\* self.delete_tokens(graph)
telephone_delete_tokens(s) ==
    LET opened == delete_space(Del("{", delete_space(Del("telephone", Start(s)))))
    IN  Finish(Del("}", delete_space(telephone_verbalizer_graph(opened))))

(***************************************************************************)
(* ElectronicFst, tagger and verbalizer.                                   *)
(***************************************************************************)
\* Symbol replacements
symbols ==
    string_map({ <<"@", " παπάκι ">>, <<".", " τελεία ">>, <<"-", " παύλα ">>,
                 <<"_", " κάτω παύλα ">>, <<"/", " κάθετος ">>,
                 <<":", " άνω κάτω τελεία ">> })

\* Protocol prefixes
protocols ==
    string_map({ <<"http://", "χτπ άνω κάτω τελεία κάθετος κάθετος ">>,
                 <<"https://", "χτπς άνω κάτω τελεία κάθετος κάθετος ">>,
                 <<"www.", "ντάμπλιου ντάμπλιου ντάμπλιου τελεία ">> })

\* NEMO_ALPHA: the letters a-z and A-Z
NEMO_ALPHA ==
    { "a", "b", "c", "d", "e", "f", "g", "h", "i", "j", "k", "l", "m", "n", "o", "p", "q",
      "r", "s", "t", "u", "v", "w", "x", "y", "z", "A", "B", "C", "D", "E", "F", "G", "H",
      "I", "J", "K", "L", "M", "N", "O", "P", "Q", "R", "S", "T", "U", "V", "W", "X", "Y",
      "Z" }

\* the letters alone
passthrough_mutant == NEMO_ALPHA

\* passthrough = NEMO_ALPHA | NEMO_DIGIT
passthrough == NEMO_ALPHA \cup NEMO_DIGIT

\* char_processor = passthrough | symbols
char_processor(c) == (IF c \in passthrough THEN {<<c>>} ELSE {}) \cup Img(symbols, <<c>>)

RECURSIVE string_processor(_)
\* string_processor = pynini.closure(char_processor)
string_processor(s) ==
    IF s = <<>> THEN {<<>>}
    ELSE {a \o b : a \in char_processor(s[1]), b \in string_processor(Tail(s))}

\* the number of spaces a text starts with
LeadingSpaces(w) ==
    IF \A i \in 1..Len(w) : w[i] = " " THEN Len(w)
    ELSE (CHOOSE i \in 1..Len(w) : w[i] # " " /\ \A j \in 1..(i - 1) : w[j] = " ") - 1

RECURSIVE electronic_clean_spaces(_)
\* clean_spaces = cdrewrite(cross(closure(" ", 2), " "), "", "", NEMO_SIGMA):
\* from left to right, two or more spaces in a row are rewritten to one; the
\* rewrite may take any two or more of the spaces that are there
electronic_clean_spaces(w) ==
    IF w = <<>> THEN {<<>>}
    ELSE IF LeadingSpaces(w) >= 2
    THEN UNION {{<<" ">> \o r : r \in electronic_clean_spaces(SubSeq(w, m + 1, Len(w)))} :
                m \in 2..LeadingSpaces(w)}
    ELSE {<<w[1]>> \o r : r \in electronic_clean_spaces(Tail(w))}

\* ... @ string_processor @ clean_spaces, on the text written character by
\* character
processed(s) == UNION {electronic_clean_spaces(Chars(Str(w))) : w \in string_processor(s)}

\* email_chars = NEMO_ALPHA | NEMO_DIGIT | union("-", "_", ".")
email_chars == NEMO_ALPHA \cup NEMO_DIGIT \cup {"-", "_", "."}

\* username = pynini.closure(email_chars, 1) (domain likewise)
username(s) == IF s # <<>> /\ \A i \in 1..Len(s) : s[i] \in email_chars THEN {s} ELSE {}

\* Email pattern: username@domain
email_graph(s) ==
    UNION {{<<"username: \"">> \o u \o <<"\"", " domain: \"παπάκι ">> \o d \o <<"\"">> :
            u \in ImgSet(processed, username(SubSeq(s, 1, k - 1))),
            d \in ImgSet(processed, username(SubSeq(s, k + 1, Len(s))))} :
           k \in {n \in 1..Len(s) : s[n] = "@"}}

\* url_chars = NEMO_NOT_SPACE - union("<", ">", "\"", "'")
url_chars(c) == c \notin {" ", "\t", "\n", "\r", "<", ">", "\"", "'"}

\* url = pynini.closure(url_chars, 1)
url(s) == IF s # <<>> /\ \A i \in 1..Len(s) : url_chars(s[i]) THEN {s} ELSE {}

RECURSIVE protocol_closure(_)
\* pynini.closure(union("http://", "https://", "www.") + url_chars): any number
\* of times a protocol prefix and one character after it
protocol_closure(s) ==
    \/ s = <<>>
    \/ \E p \in protocols :
           /\ Len(s) > Len(p[1])
           /\ SubSeq(s, 1, Len(p[1])) = p[1]
           /\ url_chars(s[Len(p[1]) + 1])
           /\ protocol_closure(SubSeq(s, Len(p[1]) + 2, Len(s)))

\* URL pattern: a protocol prefix, then a url that is not in the closure above
url_graph(s) ==
    UNION {{<<"protocol: \"">> \o p[2] \o <<"\" domain: \"">> \o d \o <<"\"">> :
            d \in ImgSet(processed,
                         {r \in url(SubSeq(s, Len(p[1]) + 1, Len(s))) : ~protocol_closure(r)})} :
           p \in {q \in protocols : Len(s) >= Len(q[1]) /\ SubSeq(s, 1, Len(q[1])) = q[1]}}

\* Simple URL without protocol
simple_url_graph(s) == {<<"domain: \"">> \o d \o <<"\"">> : d \in ImgSet(processed, url(s))}

\* graph = email_graph | url_graph | simple_url_graph
electronic_graph(s) == email_graph(s) \cup url_graph(s) \cup simple_url_graph(s)

\* final_graph = self.add_tokens(graph)
electronic_fst(s) == {<<"electronic { ">> \o t \o <<" }">> : t \in electronic_graph(s)}

\* verbalizer: username, domain, protocol
verbalize_username(P) == verbalize_field("username:", P)

verbalize_domain(P) == verbalize_field("domain:", P)

verbalize_protocol(P) == verbalize_field("protocol:", P)

\* verbalizer: graph_email = username + delete_space + insert(" ") + domain
graph_email(P) == verbalize_domain(Ins(" ", delete_space(verbalize_username(P))))

\* verbalizer: graph_url_with_protocol = protocol + delete_space + insert(" ") + domain
graph_url_with_protocol(P) == verbalize_domain(Ins(" ", delete_space(verbalize_protocol(P))))

\* verbalizer: graph = graph_email | graph_url_with_protocol | graph_url_simple
electronic_verbalizer_graph(P) ==
    graph_email(P) \cup graph_url_with_protocol(P) \cup verbalize_domain(P)

\* self.delete_tokens(graph)
electronic_delete_tokens(s) ==
    LET opened == delete_space(Del("{", delete_space(Del("electronic", Start(s)))))
    IN  Finish(Del("}", delete_space(electronic_verbalizer_graph(opened))))

(***************************************************************************)
(* The token classes that are tagged and verbalized in one piece each.     *)
(***************************************************************************)
\* what may follow the digits of an ordinal token
OrdinalMarkers ==
    { <<>>, Chars("ος"), Chars("ός"), Chars("η"), Chars("ή"), Chars("α"), Chars("ά"),
      Chars("ο"), Chars("ό"), <<".">>, Chars("ης"), Chars("°"), Chars("οςς") }

OrdinalTokens ==
    {n \o m : n \in Strings(NEMO_DIGIT, OrdinalLen)
                    \cup {Chars("100"), Chars("000"), Chars("020"), Chars("121")},
              m \in OrdinalMarkers}

\* what may follow the amount of a money token: nothing, or a separator and
\* one to three digits
MoneyCents ==
    {<<>>} \cup {<<sep>> \o c : sep \in {",", "."},
                                c \in {Chars("50"), Chars("05"), Chars("00"), Chars("5"),
                                       Chars("505")}}

\* amounts of money tokens: digit strings over a few digits
MoneyAmounts == Strings({"0", "1", "2", "5"}, AmountLen)

MoneyTokens ==
    {<<c>> \o a \o f : c \in {"€", "$", "£", "¥"}, a \in MoneyAmounts, f \in MoneyCents}
    \cup {a \o f \o <<c>> : c \in {"€", "$", "£", "¥"}, a \in MoneyAmounts, f \in MoneyCents}

\* integer parts of decimal tokens: none, digit strings, grouped numbers
DecimalIntegers ==
    {<<>>} \cup Strings({"1", "3"}, AmountLen)
    \cup {Chars("0"), Chars("10"), Chars("01"), Chars("50"), Chars("21"), Chars("100"), Chars("1.000"), Chars("1 000"),
          Chars("2.000.000"), Chars("1.00"), Chars("-3")}

DecimalTokens ==
    {i \o <<sep>> \o d : i \in DecimalIntegers, sep \in {",", ".", ":"},
                         d \in {<<>>} \cup Strings({"0", "1", "4"}, FractionLen)}
    \cup {i \o <<sep>> \o d \o q :
          i \in {<<>>, <<"3">>, <<"1", "0">>}, sep \in {",", "."}, d \in {<<"5">>, <<"0", "5">>},
          q \in {Chars(" χιλιάδες"), Chars(" εκατομμύρια"), Chars(" δισεκατομμύρια"),
                 Chars("εκατομμύρια"), Chars(" ευρώ")}}

TelephoneTokens ==
    {c \o n : c \in {<<>>, Chars("+30"), Chars("0030"), Chars("+30 "), Chars("+31")},
              n \in Strings({"2", "9", " ", "-"}, PhoneLen)}
    \cup {Chars("+30 210 1234567"), Chars("6912345678"), Chars("(210) 123.4567"),
          Chars("5"), Chars("12345"), Chars("7012345678"), Chars("2101234567")}

\* the days of date tokens: every string of one or two digits, and longer ones
DateDays == Strings(NEMO_DIGIT, DayWidth) \cup {Chars("015"), Chars("123")}

DateMonths == {Chars("1"), Chars("3"), Chars("03"), Chars("12"), Chars("13"), Chars("0")}

\* what may follow the month: nothing, or a separator and a year
DateYears ==
    {<<>>} \cup {<<sep>> \o y : sep \in {"/", "."},
                                y \in {Chars("2024"), Chars("2010"), Chars("24"), Chars("202")}}

DateTokens ==
    {d \o <<sep>> \o m \o y : d \in DateDays, sep \in {"/", "-"}, m \in DateMonths,
                               y \in DateYears}
    \cup {Chars("15 Μαρτίου 2024"), Chars("15 Μαρτίου"), Chars("15  Μαρτίου  2010"),
          Chars("1 Μαΐου 10"), Chars("15 Μάρτιος 2010"), Chars("15Μαρτίου"),
          Chars("15/3/"), Chars("/3/2010"), Chars("15:3:2010")}

WhiteListTokens ==
    {<<>>, Chars("κ."), Chars("κ"), Chars("Κ."), Chars("5"), Chars("km"), Chars(" "), Chars("\"")}

\* a number, spaces if any, a unit symbol if any
MeasureTokens ==
    {n \o sp \o u :
     n \in {<<>>, Chars("5"), Chars("1"), Chars("10"), Chars("21"), Chars("-5"), Chars("1.000"),
            Chars("3,5"), Chars("1,0"), Chars(",5"), Chars("3,5 χιλιάδες"), Chars("a")},
     sp \in {<<>>, <<" ">>, <<" ", " ">>},
     u \in {<<>>, Chars("km"), Chars("kg"), Chars("m"), Chars("cm"), Chars("χιλιόμετρα")}}

\* an hour, a separator, minutes, seconds if any, a suffix if any
TimeTokens ==
    {h \o <<sep>> \o m \o c \o x :
     h \in {Chars("14"), Chars("9"), Chars("09"), Chars("0"), Chars("00"), Chars("10"),
            Chars("23"), Chars("24"), Chars("30"), Chars("90"), Chars("100")},
     sep \in time_separator,
     m \in {Chars("30"), Chars("05"), Chars("00"), Chars("10"), Chars("59"), Chars("60"),
            Chars("80"), Chars("5")},
     c \in {<<>>, Chars(":10"), Chars(".00"), Chars(":45"), Chars(":60"), Chars(":5")},
     x \in {<<>>, Chars(" π.μ."), Chars("μ.μ."), Chars("  π.μ."), Chars(" pm")}}

\* a whole number if any, a numerator, a separator, a denominator
FractionTokens ==
    {i \o n \o <<sep>> \o d :
     i \in {<<>>, Chars("2 "), Chars("10 "), Chars("2  "), Chars("1.000 "), Chars("-2 ")},
     n \in {<<>>, Chars("1"), Chars("3"), Chars("10"), Chars("21"), Chars("0"), Chars("01")},
     sep \in fraction_separator \cup {":"},
     d \in {<<>>, Chars("2"), Chars("4"), Chars("10"), Chars("21"), Chars("0")}}

\* addresses: the short strings over a few characters, and examples
ElectronicTokens ==
    Strings({"a", "1", "@", ".", "-", " "}, AddressLen)
    \cup {<<>>, Chars("example@gmail.com"), Chars("www.google.gr"), Chars("http://a.gr"),
          Chars("https://a_b/c"), Chars("www.a"), Chars("www.awww.b"), Chars("www."),
          Chars("abc"), Chars("123"), Chars("a\"b"), Chars("α@b.gr"), Chars("a@β"),
          Chars("a@b@c"), Chars("a<b"), Chars("user_1@a-b.com"), Chars("www.a@b"), Chars("a/b:1")}

ClassGrammars ==
    {"ordinal", "money", "decimal", "telephone", "date", "whitelist", "measure", "time",
     "fraction", "electronic"}

ClassInit ==
    /\ grammar \in ClassGrammars
    /\ grammar = "ordinal" => tok \in OrdinalTokens /\ deterministic \in BOOLEAN
    /\ grammar = "money" => tok \in MoneyTokens /\ deterministic = TRUE
    /\ grammar = "decimal" => tok \in DecimalTokens /\ deterministic = TRUE
    /\ grammar = "telephone" => tok \in TelephoneTokens /\ deterministic = TRUE
    /\ grammar = "date" => tok \in DateTokens /\ deterministic = TRUE
    /\ grammar = "whitelist" => tok \in WhiteListTokens /\ deterministic = TRUE
    /\ grammar = "measure" => tok \in MeasureTokens /\ deterministic = TRUE
    /\ grammar = "time" => tok \in TimeTokens /\ deterministic = TRUE
    /\ grammar = "fraction" => tok \in FractionTokens /\ deterministic = TRUE
    /\ grammar = "electronic" => tok \in ElectronicTokens /\ deterministic = TRUE
    /\ build \in Builds
    /\ grammar # "date" => build.sigma_star = DefaultBuild.sigma_star
    /\ grammar # "whitelist" => build.whitelist_file = DefaultBuild.whitelist_file
    /\ grammar # "measure" => build.measurements_file = DefaultBuild.measurements_file
    /\ plain = tok
    /\ style = "plain"
    /\ pc = "start"
    /\ negative = FALSE
    /\ body = {}
    /\ digits = {}
    /\ padded = {}
    /\ raw = {}
    /\ result = {}
    /\ tagged = {}
    /\ spoken = {}

\* OrdinalFst: the left sides of the branches of graph, (number +
\* delete(suffix)), with the branch added if not deterministic
OrdinalSuffix ==
    /\ pc = "start"
    /\ grammar = "ordinal"
    /\ body' = marked_branches(tok)
               \cup (IF deterministic THEN {} ELSE unmarked_branches(tok))
    /\ pc' = "body"
    /\ UNCHANGED <<grammar, plain, style, tok, negative, digits, padded, raw, result, tagged>>
    /\ UNCHANGED <<deterministic, spoken, build>>

\* OrdinalFst: ... @ graph_*_tagged, wrapped by add_tokens
OrdinalTagged ==
    /\ pc = "body"
    /\ grammar = "ordinal"
    /\ tagged' = {<<"ordinal { ">> \o t \o <<" }">> :
                  t \in UNION {Img(graph_tagged(p[2]), p[1]) : p \in body}}
    /\ pc' = "tagged"
    /\ UNCHANGED <<grammar, plain, style, tok, negative, body, digits, padded, raw, result>>
    /\ UNCHANGED <<deterministic, spoken, build>>

\* MoneyFst, tagger and verbalizer: the token is tagged by the tagger's fst and
\* each tagged text is read by the verbalizer's fst
MoneyFst ==
    /\ pc = "start"
    /\ grammar = "money"
    /\ tagged' = money_fst(tok)
    /\ spoken' = UNION {money_delete_tokens(Chars(Str(t))) : t \in money_fst(tok)}
    /\ pc' = "spoken"
    /\ UNCHANGED <<grammar, plain, style, tok, negative, body, digits, padded, raw, result>>
    /\ UNCHANGED <<deterministic, build>>

\* DecimalFst, tagger and verbalizer: the token is tagged by the tagger's fst
\* and each tagged text is read by the verbalizer's fst
DecimalFst ==
    /\ pc = "start"
    /\ grammar = "decimal"
    /\ tagged' = decimal_fst(tok)
    /\ spoken' = UNION {decimal_delete_tokens(Chars(Str(t))) : t \in decimal_fst(tok)}
    /\ pc' = "spoken"
    /\ UNCHANGED <<grammar, plain, style, tok, negative, body, digits, padded, raw, result>>
    /\ UNCHANGED <<deterministic, build>>

\* TelephoneFst, tagger and verbalizer: the token is tagged by the tagger's fst and
\* each tagged text is read by the verbalizer's fst
TelephoneFst ==
    /\ pc = "start"
    /\ grammar = "telephone"
    /\ tagged' = telephone_fst(tok)
    /\ spoken' = UNION {telephone_delete_tokens(Chars(Str(t))) : t \in telephone_fst(tok)}
    /\ pc' = "spoken"
    /\ UNCHANGED <<grammar, plain, style, tok, negative, body, digits, padded, raw, result>>
    /\ UNCHANGED <<deterministic, build>>

\* TimeFst, tagger and verbalizer: the token is tagged by the tagger's fst and
\* each tagged text is read by the verbalizer's fst
TimeFst ==
    /\ pc = "start"
    /\ grammar = "time"
    /\ tagged' = time_fst(tok)
    /\ spoken' = UNION {time_delete_tokens(Chars(Str(t))) : t \in time_fst(tok)}
    /\ pc' = "spoken"
    /\ UNCHANGED <<grammar, plain, style, tok, negative, body, digits, padded, raw, result>>
    /\ UNCHANGED <<deterministic, build>>

\* FractionFst, tagger and verbalizer: the token is tagged by the tagger's fst and
\* each tagged text is read by the verbalizer's fst
FractionFst ==
    /\ pc = "start"
    /\ grammar = "fraction"
    /\ tagged' = fraction_fst(tok)
    /\ spoken' = UNION {fraction_delete_tokens(Chars(Str(t))) : t \in fraction_fst(tok)}
    /\ pc' = "spoken"
    /\ UNCHANGED <<grammar, plain, style, tok, negative, body, digits, padded, raw, result>>
    /\ UNCHANGED <<deterministic, build>>

\* ElectronicFst, tagger and verbalizer: the token is tagged by the tagger's fst and
\* each tagged text is read by the verbalizer's fst
ElectronicFst ==
    /\ pc = "start"
    /\ grammar = "electronic"
    /\ tagged' = electronic_fst(tok)
    /\ spoken' = UNION {electronic_delete_tokens(Chars(Str(t))) : t \in electronic_fst(tok)}
    /\ pc' = "spoken"
    /\ UNCHANGED <<grammar, plain, style, tok, negative, body, digits, padded, raw, result>>
    /\ UNCHANGED <<deterministic, build>>

\* DateFst, tagger
DateFst ==
    /\ pc = "start"
    /\ grammar = "date"
    /\ tagged' = date_fst(tok)
    /\ pc' = "tagged"
    /\ UNCHANGED <<grammar, plain, style, tok, negative, body, digits, padded, raw, result>>
    /\ UNCHANGED <<deterministic, spoken, build>>

\* WhiteListFst, tagger
WhiteListFst ==
    /\ pc = "start"
    /\ grammar = "whitelist"
    /\ tagged' = whitelist_fst(tok)
    /\ pc' = "tagged"
    /\ UNCHANGED <<grammar, plain, style, tok, negative, body, digits, padded, raw, result>>
    /\ UNCHANGED <<deterministic, spoken, build>>

\* MeasureFst, tagger and verbalizer: the token is tagged by the tagger's fst
\* and each tagged text is read by the verbalizer's fst
MeasureFst ==
    /\ pc = "start"
    /\ grammar = "measure"
    /\ tagged' = measure_fst(tok)
    /\ spoken' = UNION {measure_delete_tokens(Chars(Str(t))) : t \in measure_fst(tok)}
    /\ pc' = "spoken"
    /\ UNCHANGED <<grammar, plain, style, tok, negative, body, digits, padded, raw, result>>
    /\ UNCHANGED <<deterministic, build>>

ClassNext ==
    \/ OrdinalSuffix
    \/ OrdinalTagged
    \/ MoneyFst
    \/ DecimalFst
    \/ TelephoneFst
    \/ DateFst
    \/ WhiteListFst
    \/ MeasureFst
    \/ TimeFst
    \/ FractionFst
    \/ ElectronicFst

ClassSpec == ClassInit /\ [][ClassNext]_vars

(***************************************************************************)
(* Vocabulary of the properties.                                           *)
(***************************************************************************)
\* the strings the composer is given, and the digit strings among them
IsSeparator(c) == c \in cardinal_separator

HasSeparator(s) == \E i \in 1..Len(s) : IsSeparator(s[i])

\* s as a digit string of the composer's domain: 1..15 digits, no leading
\* zero unless it is "0"
InDomain(s) ==
    /\ Len(s) \in 1..Width
    /\ IsDigits(s)
    /\ (s[1] # "0" \/ s = <<"0">>)

\* scale levels, most significant first
Levels == 1..5

\* the 3-digit window of level L in a 15-digit string
Window(p, L) == SubSeq(p, 3 * L - 2, 3 * L)

ZeroPadded(s) == Zeros(Width - Len(s)) \o s

DigitValue(c) == CHOOSE n \in 0..9 : <<"0", "1", "2", "3", "4", "5", "6", "7", "8", "9">>[n + 1] = c

\* the value 0..999 of a 3-digit window
GroupValue(g) == 100 * DigitValue(g[1]) + 10 * DigitValue(g[2]) + DigitValue(g[3])

\* the five group values of a digit string of at most 15 digits
GroupValues(s) == [L \in Levels |-> GroupValue(Window(ZeroPadded(s), L))]

PluralWord == <<"τρισεκατομμύρια", "δισεκατομμύρια", "εκατομμύρια", "χιλιάδες">>

\* the exactly-one form of each scale level
OneForm ==
    << <<"ένα", " ", "τρισεκατομμύριο">>, <<"ένα", " ", "δισεκατομμύριο">>,
       <<"ένα", " ", "εκατομμύριο">>, <<"χίλια">> >>

\* u occurs in w as a run of consecutive symbols
Contains(w, u) ==
    \E i \in 0..(Len(w) - Len(u)) : SubSeq(w, i + 1, i + Len(u)) = u

RECURSIVE JoinWords(_)
\* words joined by single spaces
JoinWords(ws) ==
    IF Len(ws) <= 1 THEN ws ELSE <<ws[1], " ">> \o JoinWords(Tail(ws))

TheWord(R, i) == CHOOSE o \in Img(R, i) : TRUE

\* the tens component the documentation gives two digits: nothing for 00, the
\* digit word for 01-09, the teen word for 10-19, the decade word for 20..90,
\* decade word and digit word otherwise
ExpectedTens(t, u) ==
    IF t = "0" /\ u = "0" THEN <<>>
    ELSE IF t = "0" THEN TheWord(digit, <<u>>)
    ELSE IF t = "1" /\ u # "0" THEN TheWord(teens, <<t, u>>)
    ELSE IF u = "0" THEN TheWord(decades, <<t, u>>)
    ELSE TheWord(decades, <<t, "0">>) \o TheWord(digit, <<u>>)

\* the hundreds word: nothing for 0, 'εκατό' for exactly 100, 'εκατόν' before
\* a remainder, the hundreds prefix word for 2..9
ExpectedHundredWord(g) ==
    IF g[1] = "0" THEN <<>>
    ELSE IF g[1] = "1" THEN (IF g[2] = "0" /\ g[3] = "0" THEN <<"εκατό">> ELSE <<"εκατόν">>)
    ELSE TheWord(graph_hundreds_prefix, <<g[1]>>)

\* the documented rendering of a 3-digit window
ExpectedGroup(g) == JoinWords(ExpectedHundredWord(g) \o ExpectedTens(g[2], g[3]))

\* value of a number word read back through the inverse tables, 0 if none
UnitWordValue(word) ==
    IF \E q \in graph_digit \cup teens \cup decades : q[2] = <<word>>
    THEN LET q == CHOOSE q \in graph_digit \cup teens \cup decades : q[2] = <<word>>
         IN  IF Len(q[1]) = 1 THEN DigitValue(q[1][1])
             ELSE 10 * DigitValue(q[1][1]) + DigitValue(q[1][2])
    ELSE IF \E q \in graph_hundreds_prefix : q[2] = <<word>>
    THEN 100 * DigitValue((CHOOSE q \in graph_hundreds_prefix : q[2] = <<word>>)[1][1])
    ELSE IF word \in {"εκατό", "εκατόν"} THEN 100
    ELSE 0

\* the level a scale word closes, 0 if the word is no scale word
ScaleLevel(word) ==
    IF word \in {"τρισεκατομμύριο", "τρισεκατομμύρια"} THEN 1
    ELSE IF word \in {"δισεκατομμύριο", "δισεκατομμύρια"} THEN 2
    ELSE IF word \in {"εκατομμύριο", "εκατομμύρια"} THEN 3
    ELSE IF word \in {"χιλιάδες", "χίλια"} THEN 4
    ELSE 0

RECURSIVE ReadBack(_, _, _)
\* the group values of a word sequence: number words add up in the open
\* group g, a scale word closes the group at its level ('χίλια' is one
\* thousand by itself), what is left at the end is the units group
ReadBack(w, g, acc) ==
    IF w = <<>> THEN [acc EXCEPT ![5] = @ + g]
    ELSE LET L == ScaleLevel(w[1])
         IN  IF L = 0 THEN ReadBack(Tail(w), g + UnitWordValue(w[1]), acc)
             ELSE ReadBack(Tail(w), 0,
                           [acc EXCEPT ![L] = @ + (IF w[1] = "χίλια" THEN 1 ELSE g)])

WordValues(w) == ReadBack(w, 0, [L \in Levels |-> 0])

\* number of digits of a token
DigitCount(s) == Cardinality({i \in 1..Len(s) : s[i] \in NEMO_DIGIT})

\* positions of the grouping separators of a token
SepPos(s) == {i \in 1..Len(s) : IsSeparator(s[i])}

\* separators strictly at 3-digit boundaries: only digits and separators, a
\* leftmost group of 1-3 digits with a non-zero value, exactly three digits
\* after every separator
WellGrouped(s) ==
    LET P == SepPos(s)
        first == CHOOSE i \in P : \A j \in P : i <= j
    IN  /\ P # {}
        /\ \A i \in (1..Len(s)) \ P : s[i] \in NEMO_DIGIT
        /\ first \in 2..4
        /\ \E i \in 1..(first - 1) : s[i] # "0"
        /\ \A i \in P : /\ i + 3 <= Len(s)
                        /\ \A j \in (i + 1)..(i + 3) : j \notin P
                        /\ (i + 3 = Len(s) \/ (i + 4) \in P)

\* the malformed groupings the documentation lists
MisgroupedTokens ==
    { <<"1", "2", ".", "3", "4">>, <<"1", ".", "2", "3", "4", "5">>,
      <<"1", "2", "3", "4", ".", "5", "6", "7">>, <<"1", ".", ".", "2", "3", "4">>,
      <<".", "1", "2", "3">>, <<"0", ".", "1", "2", "3">>,
      <<"0", "0", "0", ".", "1", "2", "3">> }

FieldGrammars == {"minutes", "seconds", "fractional"}

(***************************************************************************)
(* Properties of the numeral composer.                                     *)
(***************************************************************************)

\* C1: the composer is total on its domain: every digit string of 1..15
\* digits without a leading zero, and "0", has at least one word sequence.
C1_Total ==
    Done => \A b \in body : InDomain(b) => result # {}

\* C2: the composer is single-valued: no input, grouped or not, is related
\* to two different word sequences.
C2_SingleValued ==
    Done => Cardinality(result) <= 1

\* C3: cardinal round trip: reading an output back through the inverse
\* tables, group by group, gives the number that was read.
C3_RoundTrip ==
    Done => \A d \in digits : Len(d) <= Width =>
                \A w \in result : WordValues(w) = GroupValues(d)

\* C4: a group value 1..999 is rendered as the hundreds word of its
\* hundreds digit followed by the tens component of its last two digits.
C4_GroupRendering ==
    Done => \A d \in digits : (Len(d) <= 3 /\ d[1] # "0") =>
                result = {ExpectedGroup(Zeros(3 - Len(d)) \o d)}

\* C5: exactly-one elision: 10^3, 10^6, 10^9 and 10^12 are rendered as the
\* exactly-one form of their level alone, and in every accepted number a
\* level whose 3-digit group is "001" contributes its exactly-one form and
\* not the plural scale word.
C5_ExactlyOne ==
    Done => \A d \in digits : \A L \in 1..4 :
                /\ d = <<"1">> \o Zeros(3 * (5 - L)) => result = {OneForm[L]}
                /\ (Len(d) <= Width /\ Window(ZeroPadded(d), L) = <<"0", "0", "1">>)
                   => \A w \in result : /\ Contains(w, OneForm[L])
                                        /\ ~Contains(w, <<PluralWord[L]>>)

C5_Witness ==
    /\ Done
    /\ digits = {<<"1">> \o Zeros(12)}
    /\ result = {<<"ένα", " ", "τρισεκατομμύριο">>}

\* C6: a scale level whose 3-digit group is neither "000" nor "001" is
\* rendered as the group's hundreds component, a space and the plural scale
\* word, and never as the exactly-one form.
C6_PluralScale ==
    Done => \A d \in digits : InDomain(d) => \A L \in 1..4 :
                LET g == Window(ZeroPadded(d), L)
                IN  g \notin {<<"0", "0", "0">>, <<"0", "0", "1">>}
                    => /\ result # {}
                       /\ \A w \in result :
                            /\ Contains(w, ExpectedGroup(g) \o <<" ", PluralWord[L]>>)
                            /\ ~Contains(w, OneForm[L])

\* C7: grouping equivalence: a digit string written with a period or a space
\* before every group of three digits has exactly the outputs of the digit
\* string written without separators.
C7_GroupingEquivalence ==
    (Done /\ style # "plain") => result = graph(plain)

C7_Witness ==
    /\ Done
    /\ style = "."
    /\ HasSeparator(tok)
    /\ result # {}

\* C8 as claimed: a token with a character that is neither a digit nor a
\* grouping separator, or with more than 15 digits, has no tagged output.
C8_MalformedNoMatch ==
    pc = "tagged" =>
        ((\/ \E i \in 1..Len(tok) : tok[i] \notin NEMO_DIGIT \cup cardinal_separator
          \/ DigitCount(tok) > Width)
         => tagged = {})

\* C8 amended: a token with a character that is neither a digit nor a
\* grouping separator, other than a minus sign in first position, or with
\* more than 15 digits, has no tagged output.
C8_MalformedNoMatchButMinus ==
    pc = "tagged" =>
        ((\/ \E i \in 1..Len(tok) : /\ tok[i] \notin NEMO_DIGIT \cup cardinal_separator
                                    /\ ~(i = 1 /\ tok[i] = "-")
          \/ DigitCount(tok) > Width)
         => tagged = {})

C8_Witness ==
    /\ pc = "tagged"
    /\ DigitCount(tok) = Width + 1
    /\ tok[1] = "1" /\ tok[2] = "2"
    /\ digits # {}
    /\ tagged = {}

\* C9: separator validation: an input with grouping separators is accepted
\* only if every separator is followed by exactly three digits and the
\* leftmost group has 1-3 digits and a non-zero value; the listed malformed
\* groupings are no-matches.
C9_SeparatorValidation ==
    Done => \A b \in body :
                /\ (HasSeparator(b) /\ result # {}) => WellGrouped(b)
                /\ b \in MisgroupedTokens => result = {}

C9_Witness ==
    /\ Done
    /\ \E b \in body : HasSeparator(b) /\ Len(b) = 9
    /\ result # {}

\* C10: zero boundary: "0" is rendered as the zero word; "00" in a fixed
\* two-digit field (minutes, seconds, cents) is rendered as the zero word;
\* any other string of two or more characters that starts with a zero is
\* rejected by the composer.
C10_ZeroBoundary ==
    Done => /\ body = {<<"0">>} => result = {<<"μηδέν">>}
            /\ (grammar \in FieldGrammars /\ tok = <<"0", "0">>) => result = {<<"μηδέν">>}
            /\ \A b \in body : (Len(b) >= 2 /\ b[1] = "0") => result = {}

C10_Witness ==
    /\ Done
    /\ grammar = "minutes"
    /\ tok = <<"0", "0">>
    /\ result = {<<"μηδέν">>}

\* C11: sign handling: for a string X the composer accepts with words W, the
\* tagger maps "-" followed by X to the negative field followed by the integer
\* field of W, and X itself to the integer field of W alone; the words are
\* the same with and without the minus sign.
C11_SignHandling ==
    pc = "tagged" =>
        LET minus == tok # <<>> /\ tok[1] = "-"
            X == IF minus THEN Tail(tok) ELSE tok
        IN  tagged = {(IF minus
                       THEN <<"cardinal { ", "negative: ", "\"true\" ", "integer: \"">>
                       ELSE <<"cardinal { ", "integer: \"">>)
                      \o W \o <<"\"", " }">> : W \in graph(X)}

C11_Witness ==
    /\ pc = "tagged"
    /\ tok[1] = "-"
    /\ Len(tok) >= 5
    /\ \E t \in tagged : t[2] = "negative: " /\ t[3] = "\"true\" "

\* C12: spacing invariant: an output of the composer has no space at its
\* start or at its end and no two spaces in a row: words and single spaces
\* take turns, from a word to a word.
C12_Spacing ==
    Done => \A w \in result :
                /\ Len(w) % 2 = 1
                /\ \A i \in 1..Len(w) : (w[i] = " ") <=> (i % 2 = 0)

C12_Witness ==
    /\ Done
    /\ digits = {<<"2">> \o Zeros(6)}
    /\ \E w \in raw : w[Len(w)] = " "
    /\ result = {<<"δύο", " ", "εκατομμύρια">>}

(***************************************************************************)
(* Properties of the ordinal former.                                       *)
(***************************************************************************)
\* the digits at the start of an ordinal token and what follows them
NumeralOf(s) ==
    SubSeq(s, 1, CHOOSE k \in 0..Len(s) :
                    /\ IsDigits(SubSeq(s, 1, k))
                    /\ (k < Len(s) => s[k + 1] \notin NEMO_DIGIT))

MarkerOf(s) == SubSeq(s, Len(NumeralOf(s)) + 1, Len(s))

Genders == {"masc", "fem", "neut"}

\* the marker a gender is named by, and the ending of its words
GenderMarker == [masc |-> Chars("ος"), fem |-> Chars("η"), neut |-> Chars("ο")]

GenderEnding == [masc |-> "ος", fem |-> "η", neut |-> "ο"]

graph_ordinal(g) ==
    CASE g = "masc" -> graph_ordinal_masc
      [] g = "fem" -> graph_ordinal_fem
      [] g = "neut" -> graph_ordinal_neut

\* the text of the tagged token of an ordinal word in a gender
OrdinalTag(word, g) ==
    "ordinal { integer: \"" \o word \o "\" morphosyntactic_features: \"" \o g \o "\" }"

EndsWith(t, e) == Len(t) >= Len(e) /\ SubSeq(t, Len(t) - Len(e) + 1, Len(t)) = e

\* a value 1..99 written without leading zero, or 100
OrdinalValue(n) ==
    /\ n # <<>>
    /\ IsDigits(n)
    /\ (Len(n) <= 2 /\ n[1] # "0") \/ n = <<"1", "0", "0">>

\* C13: ordinal domain: a token made of a value 1..99 without leading zero,
\* or of 100, and of one of the three gender markers is tagged.
C13_OrdinalDomain ==
    (grammar = "ordinal" /\ pc = "tagged") =>
        \A g \in Genders :
            (OrdinalValue(NumeralOf(tok)) /\ MarkerOf(tok) = GenderMarker[g])
            => \E t \in tagged : \E w \in Img(graph_ordinal(g), NumeralOf(tok)) :
                   Str(t) = OrdinalTag(Str(w), g)

\* C14: multiples of ten: the token d0 + marker is tagged with the stem of d
\* in ordinal_tens_roots followed by the gender ending, and the token 0d +
\* marker is not.
C14_MultiplesOfTen ==
    (grammar = "ordinal" /\ pc = "tagged" /\ deterministic) =>
        \A g \in Genders : \A d \in NEMO_DIGIT \ {"0"} :
            LET word == Str(CHOOSE r \in Img(ordinal_tens_roots, <<d>>) : TRUE)
                        \o GenderEnding[g]
            IN  /\ tok = <<d, "0">> \o GenderMarker[g]
                   => {Str(t) : t \in tagged} = {OrdinalTag(word, g)}
                /\ tok = <<"0", d>> \o GenderMarker[g]
                   => OrdinalTag(word, g) \notin {Str(t) : t \in tagged}

GenderOfMarker(m) ==
    CASE m \in {Chars("ος"), Chars("ός"), <<".">>} -> "masc"
      [] m \in {Chars("η"), Chars("ή"), Chars("α"), Chars("ά")} -> "fem"
      [] m \in {Chars("ο"), Chars("ό")} -> "neut"
      [] OTHER -> "none"

\* C15: gender-marker mapping, deterministic mode: an accepted numeral
\* followed by a marker is tagged once, with the gender of the marker and
\* with the word of the numeral in that gender, which ends in the gender's
\* ending; "1ος" is tagged integer "πρώτος", features "masc".
C15_GenderMarker ==
    (grammar = "ordinal" /\ pc = "tagged" /\ deterministic) =>
        LET n == NumeralOf(tok)
            g == GenderOfMarker(MarkerOf(tok))
        IN  /\ (g # "none" /\ Img(graph_ordinal_masc, n) # {})
               => /\ Cardinality(tagged) = 1
                  /\ \A t \in tagged : \E w \in Img(graph_ordinal(g), n) :
                        /\ Str(t) = OrdinalTag(Str(w), g)
                        /\ EndsWith(Str(w), GenderEnding[g])
            /\ tok = Chars("1ος")
               => {Str(t) : t \in tagged}
                  = {"ordinal { integer: \"πρώτος\" morphosyntactic_features: \"masc\" }"}

C15_Witness ==
    /\ grammar = "ordinal"
    /\ pc = "tagged"
    /\ deterministic
    /\ tok = Chars("13ά")
    /\ {Str(t) : t \in tagged}
       = {"ordinal { integer: \"δέκατη τρίτη\" morphosyntactic_features: \"fem\" }"}

\* C16: the masculine, feminine and neuter words of an accepted numeral are
\* three different texts, and each gender graph gives a numeral at most one
\* word.
C16_NoCollision ==
    (grammar = "ordinal" /\ pc \in {"body", "tagged"}) =>
        \A p \in body :
            LET words(g) == {Str(w) : w \in Img(graph_ordinal(g), p[1])}
            IN  /\ \A g \in Genders : Cardinality(words(g)) <= 1
                /\ \A g \in Genders : \A h \in Genders \ {g} : words(g) \cap words(h) = {}

C16_Witness ==
    /\ grammar = "ordinal"
    /\ pc = "tagged"
    /\ \E p \in body : /\ p[1] = <<"9", "9">>
                       /\ \A g \in Genders : Img(graph_ordinal(g), p[1]) # {}
    /\ tagged # {}

\* C17: a numeral without marker that the ordinal former accepts is tagged
\* with its three words, one per gender, if not deterministic, and is not
\* tagged if deterministic.
C17_NonDeterministic ==
    (grammar = "ordinal" /\ pc = "tagged" /\ IsDigits(tok)) =>
        /\ deterministic => tagged = {}
        /\ (~deterministic /\ number(tok) /\ Img(graph_ordinal_masc, tok) # {})
           => /\ Cardinality(tagged) = 3
              /\ \A g \in Genders : \E w \in Img(graph_ordinal(g), tok) :
                    OrdinalTag(Str(w), g) \in {Str(t) : t \in tagged}

C17_Witness ==
    /\ grammar = "ordinal"
    /\ pc = "tagged"
    /\ ~deterministic
    /\ tok = <<"2", "1">>
    /\ Cardinality(tagged) = 3

(***************************************************************************)
(* Properties of the money class.                                          *)
(***************************************************************************)
\* whether the currency symbol of a money token comes first
SymbolFirst(s) == Img(currency_symbols, <<s[1]>>) # {}

\* the word of the currency symbol of a money token
CurrencyWord(s) ==
    Str(CHOOSE c \in Img(currency_symbols, <<IF SymbolFirst(s) THEN s[1] ELSE s[Len(s)]>>) : TRUE)

\* a money token without its currency symbol
Amount(s) == IF SymbolFirst(s) THEN Tail(s) ELSE SubSeq(s, 1, Len(s) - 1)

\* the amount has a two-digit cents part
HasCents(a) == Len(a) >= 4 /\ a[Len(a) - 2] \in decimal_separator

\* C18: money canonical order: a symbol and an accepted amount, written in
\* either order, are spoken as the words of the amount, a space and the
\* currency word.
C18_CanonicalOrder ==
    (grammar = "money" /\ pc = "spoken" /\ integer_graph(Amount(tok)) # {})
    => spoken = {Str(w) \o " " \o CurrencyWord(tok) : w \in graph(Amount(tok))}

\* C19: money with cents: a symbol and an accepted amount with two digits of
\* cents, written in either order, are tagged, and the tagged text is spoken
\* as amount words, currency word, "και", cents words, minor currency word.
C19_MoneyWithCents ==
    (grammar = "money" /\ pc = "spoken") =>
        LET a == Amount(tok)
            I == SubSeq(a, 1, Len(a) - 3)
            F == SubSeq(a, Len(a) - 1, Len(a))
        IN  (HasCents(a) /\ integer_graph(I) # {} /\ cents_graph(F) # {})
            => /\ tagged # {}
               /\ spoken = {Str(w) \o " " \o CurrencyWord(tok) \o " και " \o Str(f)
                            \o " λεπτά" : w \in integer_graph(I), f \in cents_graph(F)}

(***************************************************************************)
(* Properties of the digit-by-digit readings.                              *)
(***************************************************************************)
\* the word of one digit
DigitWord ==
    [c \in NEMO_DIGIT |->
        CASE c = "0" -> "μηδέν" [] c = "1" -> "ένα" [] c = "2" -> "δύο"
          [] c = "3" -> "τρία" [] c = "4" -> "τέσσερα" [] c = "5" -> "πέντε"
          [] c = "6" -> "έξι" [] c = "7" -> "επτά" [] c = "8" -> "οκτώ"
          [] c = "9" -> "εννέα"]

RECURSIVE DigitWords(_)
\* the words of the digits of d in their order, with one space between two
DigitWords(d) ==
    IF d = <<>> THEN ""
    ELSE IF Len(d) = 1 THEN DigitWord[d[1]]
    ELSE DigitWord[d[1]] \o " " \o DigitWords(Tail(d))

\* the digits of a token, in their order
DigitsOf(s) == SelectSeq(s, LAMBDA c : c \in NEMO_DIGIT)

\* the place of the last character of s that is not a digit, or 0
LastNonDigit(s) ==
    CHOOSE k \in 0..Len(s) : /\ (k > 0 => s[k] \notin NEMO_DIGIT)
                             /\ IsDigits(SubSeq(s, k + 1, Len(s)))

\* the texts of the tagged token of a telephone number whose number part is
\* read from s
TelephoneTags(s) ==
    {"telephone { number_part: \"" \o DigitWords(DigitsOf(s)) \o "\" }"}
    \cup UNION {IF Len(s) >= Len(c) /\ SubSeq(s, 1, Len(c)) = c
                THEN {"telephone { country_code: \"τριάντα\" number_part: \""
                      \o DigitWords(DigitsOf(SubSeq(s, Len(c) + 1, Len(s)))) \o "\" }"}
                ELSE {} : c \in {Chars("+30"), Chars("0030")}}

DateSepPos(s) == {i \in 1..Len(s) : s[i] \in separator}

\* the day, month and year of a token with two date separators
DateParts(s) ==
    LET i == CHOOSE k \in DateSepPos(s) : \A n \in DateSepPos(s) : k <= n
        j == CHOOSE k \in DateSepPos(s) : \A n \in DateSepPos(s) : k >= n
    IN  <<SubSeq(s, 1, i - 1), SubSeq(s, i + 1, j - 1), SubSeq(s, j + 1, Len(s))>>

\* the value of a string of one or two digits
FieldValue(s) ==
    IF Len(s) = 1 THEN DigitValue(s[1]) ELSE 10 * DigitValue(s[1]) + DigitValue(s[2])

\* one or two digits with a value from lo to hi
IsField(s, lo, hi) == Len(s) \in 1..2 /\ IsDigits(s) /\ FieldValue(s) \in lo..hi

\* D sep M sep YYYY with D in 1..31, M in 1..12 and a year of four digits
IsDmyDate(s) ==
    /\ Cardinality(DateSepPos(s)) = 2
    /\ IsField(DateParts(s)[1], 1, 31)
    /\ IsField(DateParts(s)[2], 1, 12)
    /\ Len(DateParts(s)[3]) = 4 /\ IsDigits(DateParts(s)[3]) /\ DateParts(s)[3][1] # "0"

\* one or two digits written with two digits
TwoDigits(s) == IF Len(s) = 1 THEN <<"0">> \o s ELSE s

\* the cardinal rendering of a year of four digits: the thousands, then the
\* documented rendering of the last three digits
ExpectedYear(y) ==
    (IF y[1] = "1" THEN <<"χίλια">> ELSE TheWord(digit, <<y[1]>>) \o <<" ", "χιλιάδες">>)
    \o (IF Tail(y) = Zeros(3) THEN <<>> ELSE <<" ">> \o ExpectedGroup(Tail(y)))

\* the genitive name of a month number, leading zero stripped
ExpectedMonth(m) == TheWord(month_graph, IF m[1] = "0" THEN Tail(m) ELSE m)

ExpectedDate(s) ==
    <<"date { ", "day: \"">> \o ExpectedGroup(<<"0">> \o TwoDigits(DateParts(s)[1]))
    \o <<"\"", " month: \"">> \o ExpectedMonth(DateParts(s)[2])
    \o <<"\"", " year: \"">> \o ExpectedYear(DateParts(s)[3]) \o <<"\"", " }">>

\* C21: date tagging: a token D sep M sep YYYY with D in 1..31, M in 1..12
\* and a four-digit year is tagged with exactly one string: the day field
\* with the cardinal rendering of D, leading zero stripped, the month field
\* with the genitive name looked up in the month table, the year field with
\* the cardinal rendering of the year, in this order.
C21_DateTagging ==
    (pc = "tagged" /\ grammar = "date" /\ IsDmyDate(tok)) => tagged = {ExpectedDate(tok)}

(***************************************************************************)
(* Properties of the whitelist and measure grammars.                       *)
(***************************************************************************)
\* C22: missing or empty optional table: a whitelist grammar built with an
\* unreadable file, and a measure grammar built with a units table without
\* usable rows, tag no token at all, the empty token and a bare number
\* included.
C22_MissingTable ==
    /\ (pc = "tagged" /\ grammar = "whitelist" /\ build.whitelist_file = "unreadable")
       => tagged = {}
    /\ (pc = "spoken" /\ grammar = "measure" /\ build.measurements_file # "rows")
       => tagged = {}

\* the number of cardinal and decimal blocks opened in a tagged string
Blocks(t) == Cardinality({i \in 1..Len(t) : t[i] \in {"cardinal { ", "decimal { "}})

\* C23: measure structure: "5 km" is tagged with exactly
\* measure { cardinal { integer: "πέντε" } units: "χιλιόμετρα" }, every tagged
\* string of the measure tagger wraps the number's fields in one single
\* cardinal or decimal block, and the verbalizer reads that shape.
C23_MeasureStructure ==
    (pc = "spoken" /\ grammar = "measure" /\ build.measurements_file = "rows") =>
        /\ \A t \in tagged : Blocks(t) = 1
        /\ tok = Chars("5 km") =>
               tagged = {<<"measure { ", "cardinal { ", "integer: \"", "πέντε", "\"", " }",
                           " units: \"", "χιλιόμετρα", "\"", " }">>}
        /\ tok = Chars("3,5 m") =>
               measure_delete_tokens(Chars("measure { decimal { integer_part: \"τρία\" fractional_part: \"πέντε\" } units: \"μέτρα\" }")) # {}

\* the values of the units field of the tagged strings
UnitsOf(T) ==
    UNION {{t[i + 1] : i \in {k \in 1..(Len(t) - 1) : t[k] = " units: \""}} : t \in T}

\* the token is the number 1 and a unit; the token's number is another one
IsOne(s) == NumeralOf(s) = <<"1">> /\ s[1] = "1" /\ s[2] \notin {",", "."}

IsNotOne(s) == NumeralOf(s) # <<"1">>

\* C24: unit number agreement: a tagged measure has exactly one units value,
\* the singular name of the unit when the number is 1 and the plural name
\* for every other number.
C24_UnitAgreement ==
    (pc = "spoken" /\ grammar = "measure" /\ build.measurements_file = "rows" /\ tagged # {}) =>
        /\ Cardinality(UnitsOf(tagged)) = 1
        /\ IsOne(tok) => UnitsOf(tagged) \subseteq {row[2] : row \in measurements_data}
        /\ IsNotOne(tok) => UnitsOf(tagged) \subseteq {row[3] : row \in measurements_data}

(***************************************************************************)
(* Taggers against verbalizers.                                            *)
(***************************************************************************)
\* the classes whose tagged texts are read back by the class's verbalizer
CompatibleClasses == {"decimal", "fraction", "time", "telephone", "electronic"}

\* the positions of the quotes of a text
QuotePos(c) == {i \in 1..Len(c) : c[i] = "\""}

\* the least and the greatest number of a set of numbers
Least(S) == CHOOSE i \in S : \A j \in S : i <= j

Greatest(S) == CHOOSE i \in S : \A j \in S : i >= j

RECURSIVE FieldsOf(_)
\* the fields of a tagged text, in order: a label is the word before ': "',
\* a value is what stands between the two quotes
FieldsOf(c) ==
    IF Cardinality(QuotePos(c)) < 2 THEN <<>>
    ELSE LET q1 == Least(QuotePos(c))
             q2 == Least(QuotePos(c) \ {q1})
             st == Greatest({i \in 1..(q1 - 2) : c[i] = " "}) + 1
         IN  <<[label |-> Str(SubSeq(c, st, q1 - 3)), value |-> Str(SubSeq(c, q1 + 1, q2 - 1))]>>
             \o FieldsOf(SubSeq(c, q2 + 1, Len(c)))

\* what a class's verbalizer is claimed to write in front of a field's value
Connector(g, label, first) ==
    CASE g = "decimal" /\ label = "fractional_part" -> " κόμμα "
      [] g = "decimal" /\ label = "quantity" -> " "
      [] g = "fraction" /\ label = "numerator" /\ ~first -> " και "
      [] g = "fraction" /\ label = "denominator" -> " προς "
      [] g = "time" /\ label \in {"minutes", "seconds"} -> " και "
      [] g = "time" /\ label = "suffix" -> " "
      [] g = "telephone" /\ label = "country_code" -> "συν "
      [] g = "telephone" /\ label = "number_part" /\ ~first -> " "
      [] g = "electronic" /\ ~first -> " "
      [] OTHER -> ""

RECURSIVE Joined(_, _, _)
\* the values of the fields F from the i-th on, each after its connector
Joined(g, F, i) ==
    IF i > Len(F) THEN ""
    ELSE Connector(g, F[i].label, i = 1) \o F[i].value \o Joined(g, F, i + 1)

\* the field labels a class's tagger may write, in the orders it may write them
FieldOrders(g) ==
    CASE g = "decimal" -> {<<"integer_part", "fractional_part">>,
                           <<"integer_part", "fractional_part", "quantity">>}
      [] g = "fraction" -> {<<"numerator", "denominator">>,
                            <<"integer_part", "numerator", "denominator">>}
      [] g = "time" -> {<<"hours", "minutes">>, <<"hours", "minutes", "suffix">>,
                        <<"hours", "minutes", "seconds">>,
                        <<"hours", "minutes", "seconds", "suffix">>}
      [] g = "telephone" -> {<<"number_part">>, <<"country_code", "number_part">>}
      [] g = "electronic" -> {<<"domain">>, <<"username", "domain">>, <<"protocol", "domain">>}

\* the labels of a sequence of fields
Labels(F) == [i \in 1..Len(F) |-> F[i].label]

\* the class's verbalizer on a tagged text
Verbalize(g, c) ==
    CASE g = "decimal" -> decimal_delete_tokens(c)
      [] g = "fraction" -> fraction_delete_tokens(c)
      [] g = "time" -> time_delete_tokens(c)
      [] g = "telephone" -> telephone_delete_tokens(c)
      [] g = "electronic" -> electronic_delete_tokens(c)

level_index(n) ==
    CASE n = 1 -> thousands_index
      [] n = 2 -> millions_index
      [] n = 3 -> billions_index
      [] n = 4 -> trillions_index

RECURSIVE level_windows(_, _)
\* the accepting derivations of a scale level on s, each as the digits its
\* levels read, most significant first: the level reads delete("000") or a
\* prefix, the levels below read the rest, or the rest is deleted as zeros,
\* three for each level below
level_windows(n, s) ==
    IF n = 0 THEN (IF s \in DOMAIN hundreds_index THEN {<<s>>} ELSE {})
    ELSE (IF Len(s) >= 3 /\ SubSeq(s, 1, 3) = Zeros(3)
          THEN {<<Zeros(3)>> \o d : d \in level_windows(n - 1, SubSeq(s, 4, Len(s)))}
          ELSE {})
         \cup UNION {{<<SubSeq(s, 1, k)>> \o d :
                      d \in level_windows(n - 1, SubSeq(s, k + 1, Len(s)))
                            \cup (IF SubSeq(s, k + 1, Len(s)) = Zeros(3 * n)
                                  THEN {[i \in 1..n |-> Zeros(3)]}
                                  ELSE {})} :
                     k \in {j \in 0..Len(s) : SubSeq(s, 1, j) \in DOMAIN level_index(n)}}

RECURSIVE Flat(_)
\* the windows of a derivation put together again
Flat(d) == IF d = <<>> THEN <<>> ELSE d[1] \o Flat(Tail(d))

\* C26 as claimed: fixed-width grouping: in every accepting derivation of the
\* composer the 15 digits of the padded string are read as five windows of
\* exactly three digits, one for each of trillion, billion, million, thousand
\* and units; no level reads 2 or 4 digits; the windows put together are the
\* padded string.
C26_FixedWidth ==
    pc = "composed" =>
        \A p \in padded :
            \A d \in level_windows(4, p) :
                /\ Len(d) = 5
                /\ \A i \in 1..5 : Len(d[i]) = 3
                /\ Flat(d) = p

(***************************************************************************)
(* Properties of the time and telephone taggers.                           *)
(***************************************************************************)
\* how many digits a token starts with
LeadingDigits(s) ==
    CHOOSE n \in 0..Len(s) : /\ IsDigits(SubSeq(s, 1, n))
                             /\ (n < Len(s) => s[n + 1] \notin NEMO_DIGIT)

\* the value of a string of one or two digits
ClockValue(d) ==
    IF Len(d) = 1 THEN DigitValue(d[1]) ELSE 10 * DigitValue(d[1]) + DigitValue(d[2])

\* the token is hours, a separator, two digits of minutes, and maybe a
\* separator and two digits of seconds, with hours in 0..23 and minutes and
\* seconds in 00..59
TimeInRange(s) ==
    LET n == LeadingDigits(s)
        m == SubSeq(s, n + 2, n + 3)
        c == SubSeq(s, n + 5, n + 6)
    IN  /\ n \in 1..2
        /\ ClockValue(SubSeq(s, 1, n)) <= 23
        /\ Len(s) >= n + 3
        /\ IsDigits(m) /\ ClockValue(m) <= 59
        /\ (Len(s) >= n + 6 /\ s[n + 4] \in time_separator /\ IsDigits(c))
           => ClockValue(c) <= 59

\* C27 as claimed: time range: the time tagger matches only clock times with
\* hours in 0..23 and minutes and seconds in 00..59; "30:60", "90:80" and
\* "24:00" have no tagged output.
C27_TimeRange ==
    (pc = "spoken" /\ grammar = "time") =>
        /\ tagged # {} => TimeInRange(tok)
        /\ tok \in {Chars("30:60"), Chars("90:80"), Chars("24:00")} => tagged = {}

\* C28 as claimed: telephone shape: a token tagged without a country code is
\* a national number of exactly 10 digits that starts with 69 or with 2; "5",
\* "12345" and "7012345678" have no tagged output.
C28_TelephoneShape ==
    (pc = "spoken" /\ grammar = "telephone") =>
        /\ (\E t \in tagged : Labels(FieldsOf(Chars(Str(t)))) = <<"number_part">>)
           => /\ Len(DigitsOf(tok)) = 10
              /\ \/ SubSeq(DigitsOf(tok), 1, 2) = Chars("69")
                 \/ SubSeq(DigitsOf(tok), 1, 1) = Chars("2")
        /\ tok \in {Chars("5"), Chars("12345"), Chars("7012345678")} => tagged = {}

(***************************************************************************)
(* The ordinal former with a marker, in both modes.                        *)
(***************************************************************************)
\* the markers the branch of the non-deterministic mode deletes
UnrestrictedMarkers == {Chars("ος"), Chars("η"), Chars("ο"), <<".">>}

\* the tagged texts of a numeral in the genders G
OrdinalTags(n, G) ==
    UNION {{OrdinalTag(Str(w), g) : w \in Img(graph_ordinal(g), n)} : g \in G}

\* C29: in non-deterministic mode the marker does not restrict the gender: an
\* accepted numeral followed by one of the markers "ος", "η", "ο", "." is
\* tagged with its masculine, feminine and neuter words if not deterministic,
\* and with the word of the marker's gender alone (masculine for ".") if
\* deterministic.
C29_MarkerUnrestricted ==
    (/\ grammar = "ordinal"
     /\ pc = "tagged"
     /\ MarkerOf(tok) \in UnrestrictedMarkers
     /\ number(NumeralOf(tok))
     /\ Img(graph_ordinal_masc, NumeralOf(tok)) # {}) =>
        LET n == NumeralOf(tok)
            found == {Str(t) : t \in tagged}
        IN  /\ ~deterministic => found = OrdinalTags(n, Genders) /\ Cardinality(found) = 3
            /\ deterministic => found = OrdinalTags(n, {GenderOfMarker(MarkerOf(tok))})
                                /\ Cardinality(found) = 1

C29_Witness ==
    /\ grammar = "ordinal"
    /\ pc = "tagged"
    /\ ~deterministic
    /\ tok = Chars("1η")
    /\ {Str(t) : t \in tagged}
       = {"ordinal { integer: \"πρώτος\" morphosyntactic_features: \"masc\" }",
          "ordinal { integer: \"πρώτη\" morphosyntactic_features: \"fem\" }",
          "ordinal { integer: \"πρώτο\" morphosyntactic_features: \"neut\" }"}

(***************************************************************************)
(* Properties of the electronic tagger.                                    *)
(***************************************************************************)
\* a token that is not empty and is made of Latin letters, digits and the
\* symbols @ . - _ / : only
IsAddressText(s) ==
    /\ s # <<>>
    /\ \A i \in 1..Len(s) : s[i] \in NEMO_ALPHA \cup NEMO_DIGIT \cup {"@", ".", "-", "_", "/", ":"}

\* the tagged texts of the fields F among the tagged texts T
WithLabels(T, F) == {Str(t) : t \in {u \in T : Labels(FieldsOf(Chars(Str(u)))) = F}}

\* C30: the pattern without protocol of the electronic tagger accepts every
\* non-empty token of Latin letters, digits and the symbols @ . - _ / : ; a
\* token of letters and digits alone is tagged with itself as the domain
\* ("abc", "123"); a token the e-mail pattern accepts is accepted by the
\* pattern without protocol too, so it has two different tagged texts.
C30_ProtocolLess ==
    (pc = "spoken" /\ grammar = "electronic") =>
        /\ IsAddressText(tok) => WithLabels(tagged, <<"domain">>) # {}
        /\ (tok # <<>> /\ \A i \in 1..Len(tok) : tok[i] \in NEMO_ALPHA \cup NEMO_DIGIT)
           => {Str(t) : t \in tagged} = {"electronic { domain: \"" \o Str(tok) \o "\" }"}
        /\ tok = Chars("abc") => {Str(t) : t \in tagged} = {"electronic { domain: \"abc\" }"}
        /\ tok = Chars("123") => {Str(t) : t \in tagged} = {"electronic { domain: \"123\" }"}
        /\ email_graph(tok) # {}
           => /\ WithLabels(tagged, <<"username", "domain">>) # {}
              /\ WithLabels(tagged, <<"domain">>) # {}
              /\ Cardinality({Str(t) : t \in tagged}) >= 2

C30_Witness ==
    /\ pc = "spoken"
    /\ grammar = "electronic"
    /\ tok = Chars("example@gmail.com")
    /\ {Str(t) : t \in tagged}
       = {"electronic { username: \"example\" domain: \"παπάκι gmail τελεία com\" }",
          "electronic { domain: \"example παπάκι gmail τελεία com\" }"}

====
